---------------------------- MODULE Spec2Model ----------------------------
(***************************************************************************)
(* A model of the TENS v2 codec of packages/tens-wasm: canonicalization,   *)
(* the string table, the binary encoder and decoder, and the LEB128        *)
(* helpers.                                                                *)
(*                                                                         *)
(* Machine words are little-endian byte sequences (an i64 and an f64 are   *)
(* eight bytes, an i32 four), so that the boundaries at 2^31 and the       *)
(* IEEE-754 layout are the program's own; a u32 under construction in      *)
(* decode_varint is a function from the bit positions 0..31 to {0,1}.      *)
(* A string is a sequence of Unicode code points.                          *)
(***************************************************************************)
EXTENDS Integers, Sequences, FiniteSets, TLC

VARIABLES
    value,      \* the host value handed to canonicalize / encode
    canon,      \* the results of the canonicalize calls made so far, in order
    string_table, \* TensEncoder.string_table.entries
    canonical,  \* the local `canonical` of the last encode call
    scanned,    \* string_table.entries as the scan pass of the last encode left it
    out,        \* the bytes the last encode call returned
    wire,       \* the bytes handed to the decoder
    dictionary, \* TensDecoder.dictionary
    result,     \* the last decode call: the bytes it was given and what it returned
    encoded,    \* the value the last encode call was given
    calls,      \* the calls made on a StringTable or a SchemaRegistry, and what each returned
    registry,   \* SchemaRegistry: lookup, schemas, next_id
    hasher,     \* what DefaultHasher has returned so far, per sequence of keys
    text,       \* what the last encode_tens_text call returned
    parsed      \* what the last decode_tens_text call returned

vars == <<value, canon, string_table, canonical, scanned, out, wire, dictionary, result, encoded,
          calls, registry, hasher, text, parsed>>

registry_vars == <<calls, registry, hasher>>
text_vars == <<text, parsed>>

-----------------------------------------------------------------------------
(* Bits and words *)

Pow2(n) == 2 ^ n

BitAt(b, i) == (b \div Pow2(i)) % 2

\* bit i (0 is the least significant) of the little-endian word w
WBit(w, i) == BitAt(w[(i \div 8) + 1], i % 8)

\* the bits of w as a function on 0 .. 8*Len(w)-1
WBits(w) == [i \in 0..(8 * Len(w) - 1) |-> WBit(w, i)]

\* the n-byte little-endian word whose bits are f[0 .. 8n-1]
WFromBits(f, n) ==
    [j \in 1..n |->
        LET o == 8 * (j - 1)
        IN  f[o] + 2 * f[o+1] + 4 * f[o+2] + 8 * f[o+3]
            + 16 * f[o+4] + 32 * f[o+5] + 64 * f[o+6] + 128 * f[o+7]]

\* f + 1 on n bits (wrapping)
IncBits(f, n) ==
    [i \in 0..(n - 1) |-> IF \A j \in 0..(i - 1) : f[j] = 1 THEN 1 - f[i] ELSE f[i]]

\* two's complement negation on n bits
NegBits(f, n) == IncBits([i \in 0..(n - 1) |-> 1 - f[i]], n)

\* the position of the highest set bit of a non-zero f on n bits
HighBit(f, n) == CHOOSE p \in 0..(n - 1) : f[p] = 1 /\ \A q \in (p + 1)..(n - 1) : f[q] = 0

\* unsigned comparison of two little-endian words of the same length
ULt(a, b) == \E i \in 1..Len(a) : a[i] < b[i] /\ \A j \in (i + 1)..Len(a) : a[j] = b[j]

\* extension with zero bytes, whatever the sign
ZeroExtend(w, n) == w \o [j \in 1..(n - Len(w)) |-> 0]

\* sign extension of a little-endian two's complement word to n bytes
SignExtend(w, n) ==
    w \o [j \in 1..(n - Len(w)) |-> IF w[Len(w)] >= 128 THEN 255 ELSE 0]

\* the i64 of a small integer literal of the source
I64Of(n) ==
    [j \in 1..8 |-> IF j <= 4 THEN (n \div Pow2(8 * (j - 1))) % 256
                    ELSE IF n < 0 THEN 255 ELSE 0]

I64Lt(a, b) == IF WBit(a, 63) # WBit(b, 63) THEN WBit(a, 63) = 1 ELSE ULt(a, b)
I64Le(a, b) == a = b \/ I64Lt(a, b)

I32_MAX == I64Of(2147483647)
I32_MIN == <<0, 0, 0, 128, 255, 255, 255, 255>>

-----------------------------------------------------------------------------
(* f64: the IEEE-754 binary64 word, little-endian *)

F64Sign(w) == WBit(w, 63)
F64Exp(w) == (w[8] % 128) * 16 + (w[7] \div 16)
F64ManZero(w, lo, hi) == \A i \in lo..hi : WBit(w, i) = 0

is_nan(w) == F64Exp(w) = 2047 /\ ~F64ManZero(w, 0, 51)
is_infinite(w) == F64Exp(w) = 2047 /\ F64ManZero(w, 0, 51)
F64IsZero(w) == F64Exp(w) = 0 /\ F64ManZero(w, 0, 51)
is_sign_negative(w) == F64Sign(w) = 1

\* f.fract() == 0.0
FractIsZero(w) ==
    LET e == F64Exp(w) - 1023
    IN  IF F64Exp(w) = 2047 THEN FALSE
        ELSE IF F64IsZero(w) THEN TRUE
        ELSE IF e < 0 THEN FALSE
        ELSE IF e >= 52 THEN TRUE
        ELSE F64ManZero(w, 0, 51 - e)

\* f.abs() < (i32::MAX as f64): 2147483647.0 is 2^30 * 1.11..1 (30 ones), 22 zeros
AbsLtI32Max(w) ==
    LET e == F64Exp(w) - 1023
    IN  IF is_nan(w) THEN FALSE
        ELSE IF e < 30 THEN TRUE
        ELSE IF e > 30 THEN FALSE
        ELSE \E i \in 22..51 : WBit(w, i) = 0

\* f as i32 (truncating, saturating, NaN to 0): the four bytes of the i32
F64AsI32(w) ==
    LET e == F64Exp(w) - 1023
        mag == [j \in 0..31 |-> IF j = e THEN 1
                                ELSE IF j < e THEN WBit(w, 52 - e + j) ELSE 0]
    IN  IF is_nan(w) \/ e < 0 THEN <<0, 0, 0, 0>>
        ELSE IF e >= 31 THEN (IF F64Sign(w) = 1 THEN <<0, 0, 0, 128>> ELSE <<255, 255, 255, 127>>)
        ELSE WFromBits(IF F64Sign(w) = 1 THEN NegBits(mag, 32) ELSE mag, 4)

F64Pack(sign, exp, man) ==
    WFromBits([i \in 0..63 |-> IF i = 63 THEN sign
                               ELSE IF i >= 52 THEN BitAt(exp, i - 52)
                               ELSE man[i]], 8)

\* i as f64 (round to nearest, ties to even)
I64AsF64(w) ==
    LET neg == WBit(w, 63)
        m == IF neg = 1 THEN NegBits(WBits(w), 64) ELSE WBits(w)
        p == HighBit(m, 64)
        s == p - 52
        t == [k \in 0..53 |-> IF k <= 52 THEN m[k + s] ELSE 0]
        up == /\ m[s - 1] = 1
              /\ \/ t[0] = 1
                 \/ \E j \in 0..(s - 2) : m[j] = 1
        r == IF up THEN IncBits(t, 54) ELSE t
    IN  IF \A i \in 0..63 : m[i] = 0 THEN <<0, 0, 0, 0, 0, 0, 0, 0>>
        ELSE IF p <= 52
             THEN F64Pack(neg, p + 1023,
                          [k \in 0..51 |-> IF k >= 52 - p THEN m[k - (52 - p)] ELSE 0])
        ELSE IF r[53] = 1
             THEN F64Pack(neg, p + 1024, [k \in 0..51 |-> 0])
        ELSE F64Pack(neg, p + 1023, [k \in 0..51 |-> r[k]])

-----------------------------------------------------------------------------
(* Strings: sequences of code points *)

LF == 10

\* char::is_whitespace (the Unicode White_Space property)
is_whitespace(c) ==
    \/ c \in {9, 10, 11, 12, 13, 32, 133, 160, 5760, 8232, 8233, 8239, 8287, 12288}
    \/ (c >= 8192 /\ c <= 8202)

RECURSIVE trim_end(_)
trim_end(s) ==
    IF s # <<>> /\ is_whitespace(s[Len(s)]) THEN trim_end(SubSeq(s, 1, Len(s) - 1)) ELSE s

\* the element of a set of one element; {e(x) : x \in {v}} is e with x standing
\* for the value of v, worked out once
The(S) == CHOOSE x \in S : TRUE

\* the first of a set of positions, 0 when there is none
Least(hits) == IF hits = {} THEN 0 ELSE CHOOSE i \in hits : \A j \in hits : i <= j

\* the lines of s from position p on, the first of them ending at position i - 1
\* (i = 0: s has no '\n' from p on)
RECURSIVE lines_from(_, _)
line_to(s, p, i) ==
    IF i = 0 THEN <<SubSeq(s, p, Len(s))>>
    ELSE <<IF i > p /\ s[i - 1] = 13 THEN SubSeq(s, p, i - 2) ELSE SubSeq(s, p, i - 1)>>
         \o lines_from(s, i + 1)

lines_from(s, p) ==
    IF p > Len(s) THEN <<>>
    ELSE The({line_to(s, p, i) : i \in {Least({k \in p..Len(s) : s[k] = LF})}})

\* str::lines: the pieces that end at each '\n', without the '\n' and without a
\* '\r' before it; what follows the last '\n' is a line only when it is not empty
lines(s) == The({lines_from(t, 1) : t \in {s}})

RECURSIVE join(_, _)
join(ls, sep) ==
    IF ls = <<>> THEN <<>>
    ELSE IF Len(ls) = 1 THEN ls[1]
    ELSE ls[1] \o sep \o join(Tail(ls), sep)

\* NFKC of one code point, for the code points the model's strings are drawn
\* from: the compatibility characters U+00A0, U+FB01 and U+FF21 are replaced,
\* every other one of them is NFKC-stable
nfkc_char(c) ==
    IF c = 160 THEN <<32>>
    ELSE IF c = 64257 THEN <<102, 105>>
    ELSE IF c = 65313 THEN <<65>>
    ELSE <<c>>

RECURSIVE nfkc(_)
nfkc(s) == IF s = <<>> THEN <<>> ELSE nfkc_char(s[1]) \o nfkc(Tail(s))

\* the UTF-8 bytes of one code point
utf8_char(c) ==
    IF c < 128 THEN <<c>>
    ELSE IF c < 2048 THEN <<192 + (c \div 64), 128 + (c % 64)>>
    ELSE IF c < 65536
         THEN <<224 + (c \div 4096), 128 + ((c \div 64) % 64), 128 + (c % 64)>>
    ELSE <<240 + (c \div 262144), 128 + ((c \div 4096) % 64),
           128 + ((c \div 64) % 64), 128 + (c % 64)>>

\* str::as_bytes
RECURSIVE as_bytes(_)
as_bytes(s) == IF s = <<>> THEN <<>> ELSE utf8_char(s[1]) \o as_bytes(Tail(s))

IsCont(b) == b >= 128 /\ b <= 191

\* String::from_utf8: [ok |-> TRUE, s |-> the string] or [ok |-> FALSE]
RECURSIVE from_utf8(_)
from_utf8(b) ==
    IF b = <<>> THEN [ok |-> TRUE, s |-> <<>>]
    ELSE LET b0 == b[1]
             n == IF b0 < 128 THEN 1
                  ELSE IF b0 >= 194 /\ b0 <= 223 THEN 2
                  ELSE IF b0 >= 224 /\ b0 <= 239 THEN 3
                  ELSE IF b0 >= 240 /\ b0 <= 244 THEN 4
                  ELSE 0
             wellformed ==
                 /\ n > 0
                 /\ Len(b) >= n
                 /\ \A i \in 2..n : IsCont(b[i])
                 /\ (b0 = 224 => b[2] >= 160)
                 /\ (b0 = 237 => b[2] <= 159)
                 /\ (b0 = 240 => b[2] >= 144)
                 /\ (b0 = 244 => b[2] <= 143)
             c == IF n = 1 THEN b0
                  ELSE IF n = 2 THEN (b0 - 192) * 64 + (b[2] - 128)
                  ELSE IF n = 3 THEN (b0 - 224) * 4096 + (b[2] - 128) * 64 + (b[3] - 128)
                  ELSE (b0 - 240) * 262144 + (b[2] - 128) * 4096
                       + (b[3] - 128) * 64 + (b[4] - 128)
             rest == from_utf8(SubSeq(b, n + 1, Len(b)))
         IN  IF ~wellformed THEN [ok |-> FALSE]
             ELSE IF rest.ok THEN [ok |-> TRUE, s |-> <<c>> \o rest.s]
             ELSE [ok |-> FALSE]

\* lexicographic order of byte sequences
LexLt(a, b) ==
    \E i \in 1..(Len(b)) :
        /\ \A j \in 1..(i - 1) : j <= Len(a) /\ a[j] = b[j]
        /\ (i > Len(a) \/ (i <= Len(a) /\ a[i] < b[i]))

\* String's Ord: the order of the UTF-8 bytes
StrLt(a, b) == LexLt(as_bytes(a), as_bytes(b))

\* [String]::sort
RECURSIVE sort(_)
sort(ks) ==
    IF ks = <<>> THEN <<>>
    ELSE LET front == sort(SubSeq(ks, 1, Len(ks) - 1))
             k == ks[Len(ks)]
             n == Cardinality({i \in 1..Len(front) : ~StrLt(k, front[i])})
         IN  SubSeq(front, 1, n) \o <<k>> \o SubSeq(front, n + 1, Len(front))

\* the pairs left in the order the map iterates them
as_inserted(ps) == ps

\* sort_by(|a, b| a.0.cmp(b.0)) on (key, value) pairs: stable
RECURSIVE sort_by_key(_)
sort_by_key(ps) ==
    IF ps = <<>> THEN <<>>
    ELSE LET front == sort_by_key(SubSeq(ps, 1, Len(ps) - 1))
             p == ps[Len(ps)]
             n == Cardinality({i \in 1..Len(front) : ~StrLt(p[1], front[i][1])})
         IN  SubSeq(front, 1, n) \o <<p>> \o SubSeq(front, n + 1, Len(front))

-----------------------------------------------------------------------------
(* serde_json::Value.  A Number is an i64 or an f64 (never NaN or infinite: *)
(* serde_json holds no such Number); a Map is the sequence of its           *)
(* (key, value) pairs in iteration order, keys unique.                      *)

NullV == [k |-> "null"]
BoolV(b) == [k |-> "bool", b |-> b]
IntV(w) == [k |-> "int", w |-> w]
FloatV(w) == [k |-> "float", w |-> w]
StrV(s) == [k |-> "str", s |-> s]
ArrV(a) == [k |-> "arr", a |-> a]
ObjV(m) == [k |-> "obj", m |-> m]

\* Map::keys
keys(m) == [i \in 1..Len(m) |-> m[i][1]]

\* Map::get
HasKey(m, key) == \E i \in 1..Len(m) : m[i][1] = key
get(m, key) == m[CHOOSE i \in 1..Len(m) : m[i][1] = key][2]

\* Map::insert: replaces the value of a key already present, else adds the pair
insert(m, key, val) ==
    IF HasKey(m, key)
    THEN [i \in 1..Len(m) |-> IF m[i][1] = key THEN <<key, val>> ELSE m[i]]
    ELSE Append(m, <<key, val>>)

\* Number::as_f64
as_f64(v) == IF v.k = "int" THEN I64AsF64(v.w) ELSE v.w

\* serde_json::json!(f64) / Value::from(f64): Null for NaN and the infinities
json_f64(w) == IF is_nan(w) \/ is_infinite(w) THEN NullV ELSE FloatV(w)

-----------------------------------------------------------------------------
(* canonicalize *)

RECURSIVE canonicalize(_)
RECURSIVE canonicalize_pairs(_, _)

\* the loop of the Object arm: map.insert(k, canonicalize(v)) over `sorted`
canonicalize_pairs(sorted, map) ==
    IF sorted = <<>> THEN map
    ELSE canonicalize_pairs(Tail(sorted),
                            insert(map, sorted[1][1], canonicalize(sorted[1][2])))

canonicalize(v) ==
    CASE v.k = "null" -> NullV
      [] v.k = "bool" -> BoolV(v.b)
      [] v.k \in {"int", "float"} ->
            LET f == as_f64(v)
            IN  IF is_nan(f) \/ is_infinite(f) THEN NullV
                ELSE IF F64IsZero(f) /\ is_sign_negative(f) THEN IntV(I64Of(0))
                ELSE v
      [] v.k = "str" ->
            LET normalized == nfkc(v.s)
                ls == lines(normalized)
                stripped == [i \in 1..Len(ls) |-> trim_end(ls[i])]
            IN  StrV(join(stripped, <<LF>>))
      [] v.k = "arr" -> ArrV([i \in 1..Len(v.a) |-> canonicalize(v.a[i])])
      [] v.k = "obj" -> ObjV(canonicalize_pairs(sort_by_key(v.m), <<>>))

-----------------------------------------------------------------------------
(* LEB128 (utils.rs).  A u32 is a function from the bit positions 0..31. *)

\* the u32 of a length, a count or an id (usize as u32), below 2^31 in the model
U32Of(n) == [i \in 0..31 |-> IF i = 31 THEN 0 ELSE BitAt(n, i)]

U32IsZero(x) == \A i \in 0..31 : x[i] = 0

RECURSIVE encode_varint(_)
encode_varint(val) ==
    LET byte == val[0] + 2 * val[1] + 4 * val[2] + 8 * val[3]
                + 16 * val[4] + 32 * val[5] + 64 * val[6]
        shifted == [i \in 0..31 |-> IF i + 7 <= 31 THEN val[i + 7] ELSE 0]
    IN  IF U32IsZero(shifted) THEN <<byte>>
        ELSE <<byte + 128>> \o encode_varint(shifted)

-----------------------------------------------------------------------------
(* StringTable *)

StringTable_new == [map |-> <<>>, entries |-> <<>>]

\* an add that never finds the string already there
add_again(t, s) ==
    [t |-> [map |-> (s :> Len(t.entries)) @@ t.map, entries |-> Append(t.entries, s)],
     id |-> Len(t.entries)]

\* an add that counts ids from one
add_from_one(t, s) ==
    IF s \in DOMAIN t.map
    THEN [t |-> t, id |-> t.map[s]]
    ELSE [t |-> [map |-> (s :> Len(t.entries) + 1) @@ t.map, entries |-> Append(t.entries, s)],
          id |-> Len(t.entries) + 1]

\* StringTable::add: the table after the call and the id returned
add(t, s) ==
    IF s \in DOMAIN t.map
    THEN [t |-> t, id |-> t.map[s]]
    ELSE LET id == Len(t.entries)
         IN  [t |-> [map |-> (s :> id) @@ t.map, entries |-> Append(t.entries, s)],
              id |-> id]

-----------------------------------------------------------------------------
(* TensEncoder *)

OP_NULL == 0
OP_TRUE == 1
OP_FALSE == 2
OP_INT8 == 3
OP_INT32 == 5
OP_FLOAT64 == 6
OP_STRING_REF == 7
OP_ARRAY_START == 8
OP_OBJECT_START == 9

HEADER == <<84, 69, 78, 83, 2>>

\* no key is registered ahead of the values
add_none(t, ks) == t

\* a scan pass that registers nothing
scan_nothing(t, v) == t

RECURSIVE add_all(_, _)
\* for key in &keys { self.string_table.add(key); }
add_all(t, ks) == IF ks = <<>> THEN t ELSE add_all(add(t, ks[1]).t, Tail(ks))

RECURSIVE scan_strings(_, _)
RECURSIVE scan_items(_, _)
RECURSIVE scan_fields(_, _, _)

\* for item in arr { self.scan_strings(item); }
scan_items(t, arr) ==
    IF arr = <<>> THEN t ELSE scan_items(scan_strings(t, arr[1]), Tail(arr))

\* for key in &keys { if let Some(val) = obj.get(*key) { self.scan_strings(val); } }
scan_fields(t, ks, obj) ==
    IF ks = <<>> THEN t
    ELSE scan_fields(IF HasKey(obj, ks[1]) THEN scan_strings(t, get(obj, ks[1])) ELSE t,
                     Tail(ks), obj)

scan_strings(t, v) ==
    CASE v.k = "str" -> add(t, v.s).t
      [] v.k = "arr" -> scan_items(t, v.a)
      [] v.k = "obj" -> LET ks == sort(keys(v.m))
                        IN  scan_fields(add_all(t, ks), ks, v.m)
      [] OTHER -> t

\* the Number arm of encode_value
encode_number(v) ==
    IF v.k = "int"
    THEN LET i == v.w
         IN  IF I64Le(I64Of(-128), i) /\ I64Le(i, I64Of(127))
             THEN <<OP_INT8, i[1]>>
             ELSE IF I64Le(I32_MIN, i) /\ I64Le(i, I32_MAX)
             THEN <<OP_INT32>> \o SubSeq(i, 1, 4)
             ELSE <<OP_FLOAT64>> \o I64AsF64(i)
    ELSE LET f == v.w
         IN  IF FractIsZero(f) /\ AbsLtI32Max(f)
             THEN LET i == F64AsI32(f)
                      wide == SignExtend(i, 8)
                  IN  IF I64Le(I64Of(-128), wide) /\ I64Le(wide, I64Of(127))
                      THEN <<OP_INT8, i[1]>>
                      ELSE <<OP_INT32>> \o i
             ELSE <<OP_FLOAT64>> \o f

RECURSIVE encode_value(_, _)
RECURSIVE encode_items(_, _, _)
RECURSIVE encode_fields(_, _, _, _)

\* for item in arr { self.encode_value(item, out); }
encode_items(t, arr, acc) ==
    IF arr = <<>> THEN [t |-> t, out |-> acc]
    ELSE LET r == encode_value(t, arr[1])
         IN  encode_items(r.t, Tail(arr), acc \o r.out)

\* the loop over the sorted keys of the Object arm
encode_fields(t, ks, obj, acc) ==
    IF ks = <<>> THEN [t |-> t, out |-> acc]
    ELSE LET a == add(t, ks[1])
             key_id == encode_varint(U32Of(a.id))
             r == IF HasKey(obj, ks[1]) THEN encode_value(a.t, get(obj, ks[1]))
                  ELSE [t |-> a.t, out |-> <<>>]
         IN  encode_fields(r.t, Tail(ks), obj, acc \o key_id \o r.out)

\* the table after the call and the bytes pushed to `out`
encode_value(t, v) ==
    CASE v.k = "null" -> [t |-> t, out |-> <<OP_NULL>>]
      [] v.k = "bool" -> [t |-> t, out |-> <<IF v.b THEN OP_TRUE ELSE OP_FALSE>>]
      [] v.k \in {"int", "float"} -> [t |-> t, out |-> encode_number(v)]
      [] v.k = "str" ->
            LET a == add(t, v.s)
            IN  [t |-> a.t, out |-> <<OP_STRING_REF>> \o encode_varint(U32Of(a.id))]
      [] v.k = "arr" ->
            encode_items(t, v.a, <<OP_ARRAY_START>> \o encode_varint(U32Of(Len(v.a))))
      [] v.k = "obj" ->
            LET ks == sort(keys(v.m))
            IN  encode_fields(t, ks, v.m,
                              <<OP_OBJECT_START>> \o encode_varint(U32Of(Len(ks))))

RECURSIVE dictionary_bytes(_)
\* for entry in self.string_table.entries() { varint(len) ++ bytes }
dictionary_bytes(entries) ==
    IF entries = <<>> THEN <<>>
    ELSE LET bytes == as_bytes(entries[1])
         IN  encode_varint(U32Of(Len(bytes))) \o bytes \o dictionary_bytes(Tail(entries))

\* the table of the call before, carried into this one
kept(old_table) == old_table

\* self.string_table = StringTable::new(): whatever the table held is dropped
reset(old_table) == StringTable_new

\* TensEncoder::encode on an encoder whose string table is old_table: the
\* locals and the fields the call leaves, and its bytes
encode_from(old_table, v) ==
    LET c == canonicalize(v)
        scan == scan_strings(reset(old_table), c)
        head == HEADER \o encode_varint(U32Of(Len(scan.entries)))
                       \o dictionary_bytes(scan.entries)
        tree == encode_value(scan, c)
    IN  [canonical |-> c, scanned |-> scan, string_table |-> tree.t,
         out |-> head \o tree.out]

\* TensEncoder::new().encode(&v)
encode(v) == encode_from(StringTable_new, v)

-----------------------------------------------------------------------------
(* TensDecoder.  A call ends in Ok(value), in Err(message) or in a panic;   *)
(* which of the last two depends on the build: with overflow checks (the    *)
(* dev and test profiles) an overflowing shift or addition panics, without  *)
(* them it wraps; usize is 32 bits wide on wasm32 and 64 on the host the    *)
(* tests run on.  Running out of heap is not modelled.                      *)

Builds ==
    {[overflow_checks |-> oc, usize_bits |-> 64, size_of_String |-> 24, size_of_Value |-> 32]
        : oc \in BOOLEAN}
    \cup
    {[overflow_checks |-> oc, usize_bits |-> 32, size_of_String |-> 12, size_of_Value |-> 16]
        : oc \in BOOLEAN}

Ok(v, n, ids) == [kind |-> "ok", value |-> v, n |-> n, ids |-> ids]
Err(msg, ids) == [kind |-> "err", msg |-> msg, ids |-> ids]
Panic(why, ids) == [kind |-> "panic", why |-> why, ids |-> ids]

\* bits 0..30 of a u32 as a number, and whether bit 31 is set
RECURSIVE U32LowFrom(_, _)
U32LowFrom(x, i) == IF i = 30 THEN x[30] ELSE x[i] + 2 * U32LowFrom(x, i + 1)
U32Low(x) == U32LowFrom(x, 0)
U32Big(x) == x[31] = 1

\* x as usize compared with a small length or index n
U32Gt(x, n) == U32Big(x) \/ U32Low(x) > n
U32GeLow(x, n) == U32Low(x) >= n
U32Ge(x, n) == U32Big(x) \/ U32Low(x) >= n

\* the slice &bytes[pos..]
From(bytes, pos) == SubSeq(bytes, pos + 1, Len(bytes))

\* the loop without `if byte & 0x80 == 0 { break; }`: it reads to the end of
\* the input
RECURSIVE decode_varint_to_end(_, _, _, _, _)
decode_varint_to_end(bytes, val, shift, i, bld) ==
    IF i >= Len(bytes) THEN [panic |-> FALSE, val |-> val, n |-> i]
    ELSE LET byte == bytes[i + 1]
             sh == shift % 32
             val2 == [k \in 0..31 |->
                        IF k >= sh /\ k - sh <= 6 /\ BitAt(byte % 128, k - sh) = 1
                        THEN 1 ELSE val[k]]
         IN  IF shift >= 32 /\ bld.overflow_checks THEN [panic |-> TRUE]
             ELSE decode_varint_to_end(bytes, val2, shift + 7, i + 1, bld)

RECURSIVE decode_varint_loop(_, _, _, _, _)
decode_varint_loop(bytes, val, shift, i, bld) ==
    IF i >= Len(bytes) THEN [panic |-> FALSE, val |-> val, n |-> i]
    ELSE LET byte == bytes[i + 1]
             sh == shift % 32
             val2 == [k \in 0..31 |->
                        IF k >= sh /\ k - sh <= 6 /\ BitAt(byte % 128, k - sh) = 1
                        THEN 1 ELSE val[k]]
         IN  IF shift >= 32 /\ bld.overflow_checks THEN [panic |-> TRUE]
             ELSE IF byte < 128 THEN [panic |-> FALSE, val |-> val2, n |-> i + 1]
             ELSE decode_varint_loop(bytes, val2, shift + 7, i + 1, bld)

\* utils::decode_varint: (value, bytes consumed), or the panic of `<< shift`
decode_varint(bytes, bld) == decode_varint_loop(bytes, U32Of(0), 0, 0, bld)

\* Vec::with_capacity(count as usize) panics when the capacity exceeds
\* isize::MAX bytes
capacity_overflow(count, size, bld) ==
    /\ bld.usize_bits = 32
    /\ U32Gt(count, 2147483647 \div size)

\* what the trace of ids keeps of a u32
IdOf(x) == [big |-> U32Big(x), low |-> U32Low(x)]

RECURSIVE decode_value(_, _, _, _)
RECURSIVE decode_items(_, _, _, _, _, _, _)
RECURSIVE decode_fields(_, _, _, _, _, _, _)

\* the loop of the ARRAY_START arm, before its k-th round
decode_items(bytes, dict, bld, ids, pos, k, arr) ==
    IF ~U32Gt(arr.count, k) THEN Ok(ArrV(arr.items), pos, ids)
    ELSE LET r == decode_value(From(bytes, pos), dict, bld, ids)
         IN  IF r.kind # "ok" THEN r
             ELSE decode_items(bytes, dict, bld, r.ids, pos + r.n, k + 1,
                               [arr EXCEPT !.items = Append(@, r.value)])

\* the loop of the OBJECT_START arm, before its k-th round
decode_fields(bytes, dict, bld, ids, pos, k, obj) ==
    IF ~U32Gt(obj.count, k) THEN Ok(ObjV(obj.map), pos, ids)
    ELSE LET kv == decode_varint(From(bytes, pos), bld)
             ids2 == Append(ids, IdOf(kv.val))
             pos2 == pos + kv.n
             r == decode_value(From(bytes, pos2), dict, bld, ids2)
         IN  IF kv.panic THEN Panic("attempt to shift left with overflow", ids)
             ELSE IF U32Ge(kv.val, Len(dict)) THEN Err("Key ref out of bounds", ids2)
             ELSE IF r.kind # "ok" THEN r
             ELSE decode_fields(bytes, dict, bld, r.ids, pos2 + r.n, k + 1,
                                [obj EXCEPT !.map = insert(@, dict[U32Low(kv.val) + 1], r.value)])

\* TensDecoder::decode_value on the slice `bytes`; ids: the ids read so far
decode_value(bytes, dict, bld, ids) ==
    IF bytes = <<>> THEN Err("Unexpected end of input", ids)
    ELSE LET opcode == bytes[1]
             v == decode_varint(From(bytes, 1), bld)
             pos == 1 + v.n
         IN  CASE opcode = OP_NULL -> Ok(NullV, 1, ids)
               [] opcode = OP_TRUE -> Ok(BoolV(TRUE), 1, ids)
               [] opcode = OP_FALSE -> Ok(BoolV(FALSE), 1, ids)
               [] opcode = OP_INT8 ->
                    IF Len(bytes) < 2 THEN Err("INT8: missing byte", ids)
                    ELSE Ok(IntV(SignExtend(<<bytes[2]>>, 8)), 2, ids)
               [] opcode = OP_INT32 ->
                    IF Len(bytes) < 5 THEN Err("INT32: not enough bytes", ids)
                    ELSE Ok(IntV(SignExtend(SubSeq(bytes, 2, 5), 8)), 5, ids)
               [] opcode = OP_FLOAT64 ->
                    IF Len(bytes) < 9 THEN Err("FLOAT64: not enough bytes", ids)
                    ELSE Ok(json_f64(SubSeq(bytes, 2, 9)), 9, ids)
               [] opcode = OP_STRING_REF ->
                    IF v.panic THEN Panic("attempt to shift left with overflow", ids)
                    ELSE IF U32Ge(v.val, Len(dict))
                    THEN Err("String ref out of bounds", Append(ids, IdOf(v.val)))
                    ELSE Ok(StrV(dict[U32Low(v.val) + 1]), pos, Append(ids, IdOf(v.val)))
               [] opcode = OP_ARRAY_START ->
                    IF v.panic THEN Panic("attempt to shift left with overflow", ids)
                    ELSE IF capacity_overflow(v.val, bld.size_of_Value, bld)
                    THEN Panic("capacity overflow", ids)
                    ELSE decode_items(bytes, dict, bld, ids, pos, 0,
                                      [count |-> v.val, items |-> <<>>])
               [] opcode = OP_OBJECT_START ->
                    IF v.panic THEN Panic("attempt to shift left with overflow", ids)
                    ELSE decode_fields(bytes, dict, bld, ids, pos, 0,
                                       [count |-> v.val, map |-> <<>>])
               [] OTHER -> Err("Unknown opcode", ids)

\* pos + str_len as usize overflows usize: a panic with overflow checks; without,
\* `end` wraps below pos, passes the length check, and the slice bytes[pos..end]
\* panics
end_overflows(pos, str_len, bld) ==
    /\ bld.usize_bits = 32
    /\ U32Big(str_len)
    /\ U32Low(str_len) >= 2147483647 - pos + 1

RECURSIVE dictionary_loop(_, _, _, _, _, _)
\* the dictionary loop of decode before its k-th round.  Once the input is used
\* up every further round reads (0, 0), pushes an empty string and leaves pos, and
\* the read of the value tree that follows fails on the empty rest: the model
\* does not push those entries
dictionary_loop(bytes, bld, pos, k, dict_count, dict) ==
    IF ~U32Gt(dict_count, k) \/ pos = Len(bytes) THEN [kind |-> "ok", pos |-> pos, dict |-> dict]
    ELSE LET sl == decode_varint(From(bytes, pos), bld)
             pos2 == pos + sl.n
             end == pos2 + U32Low(sl.val)
             str == from_utf8(SubSeq(bytes, pos2 + 1, end))
         IN  IF sl.panic
             THEN [kind |-> "panic", why |-> "attempt to shift left with overflow", dict |-> dict]
             ELSE IF end_overflows(pos2, sl.val, bld)
             THEN [kind |-> "panic",
                   why |-> IF bld.overflow_checks THEN "attempt to add with overflow"
                           ELSE "slice index starts after its end",
                   dict |-> dict]
             ELSE IF U32Gt(sl.val, Len(bytes) - pos2)
             THEN [kind |-> "err", msg |-> "Dictionary string extends past end of input",
                   dict |-> dict]
             ELSE IF ~str.ok
             THEN [kind |-> "err", msg |-> "Invalid UTF-8 in dictionary", dict |-> dict]
             ELSE dictionary_loop(bytes, bld, end, k + 1, dict_count, Append(dict, str.s))

\* TensDecoder::decode: what the call returns and the dictionary field it leaves
\* the header checks without the one of the version byte
header_check_any_version(bytes) ==
    IF Len(bytes) < 5 THEN "Input too short for TENS header"
    ELSE IF SubSeq(bytes, 1, 4) # <<84, 69, 78, 83>> THEN "Invalid TENS header magic"
    ELSE ""

\* the three header checks: the message of the first that fails, "" if none does
header_check(bytes) ==
    IF Len(bytes) < 5 THEN "Input too short for TENS header"
    ELSE IF SubSeq(bytes, 1, 4) # <<84, 69, 78, 83>> THEN "Invalid TENS header magic"
    ELSE IF bytes[5] # 2 THEN "Unsupported TENS version"
    ELSE ""

\* a decode that returns an error unless the value tree ends where the input ends
decode_to_end(bytes, old_dictionary, bld) ==
    LET dc == decode_varint(From(bytes, 5), bld)
        d == dictionary_loop(bytes, bld, 5 + dc.n, 0, dc.val, <<>>)
        r == decode_value(From(bytes, d.pos), d.dict, bld, <<>>)
    IN  IF header_check(bytes) # ""
        THEN [result |-> Err(header_check(bytes), <<>>), dictionary |-> old_dictionary]
        ELSE IF dc.panic
        THEN [result |-> Panic("attempt to shift left with overflow", <<>>),
              dictionary |-> old_dictionary]
        ELSE IF capacity_overflow(dc.val, bld.size_of_String, bld)
        THEN [result |-> Panic("capacity overflow", <<>>), dictionary |-> old_dictionary]
        ELSE IF d.kind = "panic"
        THEN [result |-> Panic(d.why, <<>>), dictionary |-> d.dict]
        ELSE IF d.kind = "err"
        THEN [result |-> Err(d.msg, <<>>), dictionary |-> d.dict]
        ELSE [result |-> IF r.kind # "ok" THEN r
                         ELSE IF d.pos + r.n # Len(bytes)
                         THEN Err("Trailing bytes after the value tree", r.ids)
                         ELSE [kind |-> "ok", value |-> r.value, ids |-> r.ids],
              dictionary |-> d.dict]

decode(bytes, old_dictionary, bld) ==
    LET dc == decode_varint(From(bytes, 5), bld)
        d == dictionary_loop(bytes, bld, 5 + dc.n, 0, dc.val, <<>>)
        r == decode_value(From(bytes, d.pos), d.dict, bld, <<>>)
    IN  IF header_check(bytes) # ""
        THEN [result |-> Err(header_check(bytes), <<>>), dictionary |-> old_dictionary]
        ELSE IF dc.panic
        THEN [result |-> Panic("attempt to shift left with overflow", <<>>),
              dictionary |-> old_dictionary]
        ELSE IF capacity_overflow(dc.val, bld.size_of_String, bld)
        THEN [result |-> Panic("capacity overflow", <<>>), dictionary |-> old_dictionary]
        ELSE IF d.kind = "panic"
        THEN [result |-> Panic(d.why, <<>>), dictionary |-> d.dict]
        ELSE IF d.kind = "err"
        THEN [result |-> Err(d.msg, <<>>), dictionary |-> d.dict]
        ELSE [result |-> IF r.kind = "ok" THEN [kind |-> "ok", value |-> r.value, ids |-> r.ids]
                         ELSE r,
              dictionary |-> d.dict]

-----------------------------------------------------------------------------
(* SchemaRegistry *)

\* SchemaRegistry::new
SchemaRegistry_new == [lookup |-> <<>>, schemas |-> <<>>, next_id |-> 1]

\* keys.iter().cloned().zip(types.iter().cloned()): as long as the shorter of the two
zip(ks, types) ==
    [i \in 1..(IF Len(ks) <= Len(types) THEN Len(ks) ELSE Len(types)) |-> <<ks[i], types[i]>>]

\* the sorted keys of a call, which calculate_hash is given
sorted_keys(ks, types) == keys(sort_by_key(zip(ks, types)))

\* SchemaRegistry::get_or_register, where hash is what calculate_hash returned
\* for the sorted keys: the registry after the call and the pair returned.
\* next_id is a u32; the 2^32 registrations that overflow it are out of reach.
get_or_register(self, ks, types, hash) ==
    LET sorted == sort_by_key(zip(ks, types))
        sorted_types == [i \in 1..Len(sorted) |-> sorted[i][2]]
        id == self.next_id
        schema == [id |-> id, keys |-> keys(sorted), field_types |-> sorted_types]
    IN  IF hash \in DOMAIN self.lookup
        THEN [self |-> self, id |-> self.lookup[hash], is_new |-> FALSE]
        ELSE [self |-> [lookup |-> (hash :> id) @@ self.lookup,
                        schemas |-> (id :> schema) @@ self.schemas,
                        next_id |-> id + 1],
              id |-> id, is_new |-> TRUE]

-----------------------------------------------------------------------------
(* The values the host hands over *)

MaxStrLen == 2
MaxArrLen == 2
MaxFields == 2

None == [kind |-> "none"]

\* a registry just built, and no call made on it, on a table or on the text codec
NothingElse ==
    /\ calls = <<>>
    /\ registry = SchemaRegistry_new
    /\ hasher = <<>>
    /\ text = None
    /\ parsed = None

Alphabet == {97, 32, LF}
Strs(n) == UNION {[1..k -> Alphabet] : k \in 0..n}

\* "hello", "a\r\nb", U+FF21, U+00E9, "a" U+00A0, U+FB01 tab, U+1F600, "a \n b  ",
\* "a\n\n"
SpecialStrs ==
    {<<104, 101, 108, 108, 111>>, <<97, 13, 10, 98>>, <<65313>>, <<233>>, <<97, 160>>,
     <<64257, 9>>, <<128512>>, <<97, 32, 10, 32, 98, 32, 32>>, <<97, 10, 10>>}

\* 0 1 -1 42 127 128 -128 -129 1000 -500 2^31-1 2^31 -2^31 -2^31-1 2^53+1
\* i64::MAX i64::MIN
IntPoints ==
    {I64Of(0), I64Of(1), I64Of(-1), I64Of(42), I64Of(127), I64Of(128), I64Of(-128),
     I64Of(-129), I64Of(1000), I64Of(-500), I32_MAX, <<0, 0, 0, 128, 0, 0, 0, 0>>,
     I32_MIN, <<255, 255, 255, 127, 255, 255, 255, 255>>, <<1, 0, 0, 0, 0, 0, 32, 0>>,
     <<255, 255, 255, 255, 255, 255, 255, 127>>, <<0, 0, 0, 0, 0, 0, 0, 128>>}

\* 0.0 -0.0 0.5 1.5 -1.5 3.0 3.14 127.0 128.0 -128.0 -129.0 2147483646.0
\* 2147483647.0 2147483648.0 -2147483647.0 -2147483648.0 -2147483649.0 1e10 2^53
FloatPoints ==
    {<<0, 0, 0, 0, 0, 0, 0, 0>>, <<0, 0, 0, 0, 0, 0, 0, 128>>, <<0, 0, 0, 0, 0, 0, 224, 63>>,
     <<0, 0, 0, 0, 0, 0, 248, 63>>, <<0, 0, 0, 0, 0, 0, 248, 191>>, <<0, 0, 0, 0, 0, 0, 8, 64>>,
     <<31, 133, 235, 81, 184, 30, 9, 64>>, <<0, 0, 0, 0, 0, 192, 95, 64>>,
     <<0, 0, 0, 0, 0, 0, 96, 64>>, <<0, 0, 0, 0, 0, 0, 96, 192>>, <<0, 0, 0, 0, 0, 32, 96, 192>>,
     <<0, 0, 128, 255, 255, 255, 223, 65>>, <<0, 0, 192, 255, 255, 255, 223, 65>>,
     <<0, 0, 0, 0, 0, 0, 224, 65>>, <<0, 0, 192, 255, 255, 255, 223, 193>>,
     <<0, 0, 0, 0, 0, 0, 224, 193>>, <<0, 0, 32, 0, 0, 0, 224, 193>>,
     <<0, 0, 0, 32, 95, 160, 2, 66>>, <<0, 0, 0, 0, 0, 0, 64, 67>>}

Scalars ==
    {NullV, BoolV(TRUE), BoolV(FALSE)}
    \cup {IntV(w) : w \in IntPoints} \cup {FloatV(w) : w \in FloatPoints}
    \cup {StrV(x) : x \in Strs(MaxStrLen) \cup SpecialStrs}

Leaves == {NullV, IntV(I64Of(1000)), StrV(<<97>>), StrV(<<98, 32>>)}

Arrays == {ArrV(a) : a \in UNION {[1..k -> Leaves] : k \in 0..MaxArrLen}}

Keys == {<<97>>, <<98>>, <<98, 32>>}
FieldLeaves == {FloatV(<<0, 0, 0, 0, 0, 0, 8, 64>>), StrV(<<97>>)}

\* the maps of up to n fields, in every insertion order
Maps(n, vals) ==
    {m \in UNION {[1..k -> Keys \X vals] : k \in 0..n} :
        \A i, j \in 1..Len(m) : i # j => m[i][1] # m[j][1]}

Objects == {ObjV(m) : m \in Maps(MaxFields, FieldLeaves)}

Inner ==
    {ArrV(<<StrV(<<97>>), BoolV(FALSE), StrV(<<97>>)>>), ObjV(<<>>),
     ObjV(<< <<(<<98>>), StrV(<<97>>)>>, <<(<<97>>), IntV(I64Of(-129))>> >>),
     ObjV(<< <<(<<97>>), ArrV(<<StrV(<<98>>), ObjV(<< <<(<<98>>), StrV(<<98>>)>> >>)>>)>> >>)}

Nested ==
    {ArrV(<<c, d>>) : c, d \in Inner}
    \cup {ObjV(<< <<(<<122>>), c>>, <<(<<109>>), d>> >>) : c, d \in Inner}

Values == Scalars \cup Arrays \cup Objects \cup Nested

-----------------------------------------------------------------------------
(* The codec: one encoder, one decoder, and the bytes carried between them *)

Init ==
    /\ value \in Values
    /\ canon = <<>>
    /\ string_table = StringTable_new
    /\ canonical = None
    /\ scanned = None
    /\ out = <<>>
    /\ wire = <<>>
    /\ dictionary = <<>>
    /\ result = None
    /\ encoded = None
    /\ NothingElse

\* TensEncoder::encode(&value)
Encode ==
    LET e == encode_from(string_table, value)
    IN  /\ string_table' = e.string_table
        /\ canonical' = e.canonical
        /\ scanned' = e.scanned
        /\ out' = e.out
        /\ encoded' = value
        /\ UNCHANGED <<registry_vars, text_vars, value, canon, wire, dictionary, result>>

\* the host hands the encoder's bytes to the decoder
Send ==
    /\ out # <<>>
    /\ wire' = out
    /\ UNCHANGED <<registry_vars, text_vars, value, canon, string_table, canonical, scanned, out, dictionary, result, encoded>>

\* the bytes are cut short on the way, before the decoder reads them
Truncate ==
    \E n \in 0..(Len(wire) - 1) :
        /\ result = None
        /\ wire' = SubSeq(wire, 1, n)
        /\ UNCHANGED <<registry_vars, text_vars, value, canon, string_table, canonical, scanned, out, dictionary, result, encoded>>

\* TensDecoder::decode(&wire), on any of the builds
Decode ==
    \E bld \in Builds :
        LET d == decode(wire, dictionary, bld)
        IN  /\ result' = [bytes |-> wire, ret |-> d.result]
            /\ dictionary' = d.dictionary
            /\ UNCHANGED <<registry_vars, text_vars, value, canon, string_table, canonical, scanned, out, wire, encoded>>

Next == Encode \/ Send \/ Truncate \/ Decode

Spec == Init /\ [][Next]_vars

-----------------------------------------------------------------------------
(* The decoder alone, on bytes that no encoder wrote *)

MaxTreeLen == 3

\* dictionary sections: none; "a"; "a", ""; an entry of length 2^32-1; a count
\* in a six-byte varint; an entry that is not UTF-8; a count of 2 before one
\* entry; a count of 2^32-1; an entry longer than the input; a count that ends
\* on a continuation byte
Dicts ==
    {<<0>>, <<1, 1, 97>>, <<2, 1, 97, 0>>, <<1, 255, 255, 255, 255, 15>>,
     <<255, 255, 255, 255, 255, 1>>, <<1, 1, 255>>, <<2, 1, 97>>,
     <<255, 255, 255, 255, 15>>, <<1, 2, 97>>, <<129>>}

TreeBytes == {0, 1, 7, 8, 9, 255}
Trees(n) == UNION {[1..k -> TreeBytes] : k \in 0..n}

\* an element count of 2^32-1; a reference in a six-byte varint; the reference
\* 2^31; a field count of 2^32-1; an INT8 and its byte; a reference that ends on
\* a continuation byte; a field whose key is out of range
SpecialTrees ==
    {<<8, 255, 255, 255, 255, 15>>, <<7, 255, 255, 255, 255, 255, 1>>,
     <<7, 128, 128, 128, 128, 8>>, <<9, 255, 255, 255, 255, 15>>, <<3, 255>>,
     <<7, 128>>, <<9, 2, 0, 1, 2, 0>>}

\* a wrong version, twice; a wrong magic, twice
BadHeaders ==
    {<<84, 69, 78, 83, 1>>, <<84, 69, 78, 83, 3>>, <<116, 101, 110, 115, 2>>,
     <<84, 69, 78, 84, 2>>}

WireInputs ==
    {HEADER \o d \o t : d \in Dicts, t \in Trees(MaxTreeLen) \cup SpecialTrees}
    \cup {h \o d \o t : h \in BadHeaders, d \in {<<0>>, <<1, 1, 97>>}, t \in Trees(MaxTreeLen - 1)}
    \cup {SubSeq(HEADER, 1, n) : n \in 0..4}

InitWire ==
    /\ value = NullV
    /\ canon = <<>>
    /\ string_table = StringTable_new
    /\ canonical = None
    /\ scanned = None
    /\ out = <<>>
    /\ wire \in WireInputs
    /\ dictionary = <<>>
    /\ result = None
    /\ encoded = None
    /\ NothingElse

NextWire == Decode

SpecWire == InitWire /\ [][NextWire]_vars

-----------------------------------------------------------------------------
(* canonicalize applied again to what it returned *)

MaxCanon == 2
MaxCanonLen == 3

CanonValues ==
    Values
    \cup {StrV(x) : x \in Strs(MaxCanonLen)}
    \cup {ArrV(<<StrV(x)>>) : x \in Strs(MaxCanonLen - 1)}
    \cup {ObjV(<< <<x, StrV(x)>>, <<(<<97>>), NullV>> >>) : x \in Strs(MaxCanonLen - 1) \ {<<97>>}}

InitCanon ==
    /\ value \in CanonValues
    /\ canon = <<>>
    /\ string_table = StringTable_new
    /\ canonical = None
    /\ scanned = None
    /\ out = <<>>
    /\ wire = <<>>
    /\ dictionary = <<>>
    /\ result = None
    /\ encoded = None
    /\ NothingElse

\* canonicalize(&value), then canonicalize of what the call before returned
Canonicalize ==
    /\ Len(canon) < MaxCanon
    /\ canon' = Append(canon, canonicalize(IF canon = <<>> THEN value ELSE canon[Len(canon)]))
    /\ UNCHANGED <<registry_vars, text_vars, value, string_table, canonical, scanned, out, wire, dictionary, result, encoded>>

NextCanon == Canonicalize

SpecCanon == InitCanon /\ [][NextCanon]_vars

-----------------------------------------------------------------------------
(* One encoder, handed the same pairs in one insertion order after another *)

Perms(n) == {p \in [1..n -> 1..n] : \A i, j \in 1..n : i # j => p[i] # p[j]}
Choices(sets) == {f \in [1..Len(sets) -> UNION {sets[i] : i \in 1..Len(sets)}] :
                    \A i \in 1..Len(sets) : f[i] \in sets[i]}

\* the values that hold the pairs of v, at every level, in some insertion order
RECURSIVE Reorderings(_)
Reorderings(v) ==
    CASE v.k = "arr" ->
            {ArrV(a) : a \in Choices([i \in 1..Len(v.a) |-> Reorderings(v.a[i])])}
      [] v.k = "obj" ->
            {ObjV([i \in 1..Len(v.m) |-> <<v.m[p[i]][1], c[p[i]]>>]) :
                p \in Perms(Len(v.m)),
                c \in Choices([i \in 1..Len(v.m) |-> Reorderings(v.m[i][2])])}
      [] OTHER -> {v}

OrderValues == Objects \cup Nested

InitOrder ==
    /\ value \in OrderValues
    /\ canon = <<>>
    /\ string_table = StringTable_new
    /\ canonical = None
    /\ scanned = None
    /\ out = <<>>
    /\ wire = <<>>
    /\ dictionary = <<>>
    /\ result = None
    /\ encoded = None
    /\ NothingElse

\* the host builds the object again, inserting the same pairs in another order
Reorder ==
    /\ value' \in Reorderings(value) \ {value}
    /\ UNCHANGED <<registry_vars, text_vars, canon, string_table, canonical, scanned, out, wire, dictionary, result, encoded>>

NextOrder == Encode \/ Reorder

SpecOrder == InitOrder /\ [][NextOrder]_vars

-----------------------------------------------------------------------------
(* What the properties speak of *)

RECURSIVE SumSeq(_)
SumSeq(ns) == IF ns = <<>> THEN 0 ELSE ns[1] + SumSeq(Tail(ns))

Range(f) == {f[i] : i \in DOMAIN f}

\* how many times the string s occurs in v, as a string value or as a key
RECURSIVE occurrences(_, _)
occurrences(v, s) ==
    CASE v.k = "str" -> IF v.s = s THEN 1 ELSE 0
      [] v.k = "arr" -> SumSeq([i \in 1..Len(v.a) |-> occurrences(v.a[i], s)])
      [] v.k = "obj" ->
            SumSeq([i \in 1..Len(v.m) |->
                      (IF v.m[i][1] = s THEN 1 ELSE 0) + occurrences(v.m[i][2], s)])
      [] OTHER -> 0

\* the strings of v, values and keys
RECURSIVE StringsOf(_)
StringsOf(v) ==
    CASE v.k = "str" -> {v.s}
      [] v.k = "arr" -> UNION {StringsOf(v.a[i]) : i \in 1..Len(v.a)}
      [] v.k = "obj" -> UNION {{v.m[i][1]} \cup StringsOf(v.m[i][2]) : i \in 1..Len(v.m)}
      [] OTHER -> {}

IsStrictPrefix(a, b) == Len(a) < Len(b) /\ a = SubSeq(b, 1, Len(a))

\* the last decode was given exactly what the last encode returned
RoundTripped == out # <<>> /\ result # None /\ result.bytes = out

\* a float with zero fractional part within [-2^31, 2^31-1], within [-128, 127]
FloatInI32(w) ==
    FractIsZero(w) /\ (F64Exp(w) - 1023 < 31 \/ w = <<0, 0, 0, 0, 0, 0, 224, 193>>)
FloatInI8(w) ==
    /\ FloatInI32(w)
    /\ I64Le(I64Of(-128), SignExtend(F64AsI32(w), 8))
    /\ I64Le(SignExtend(F64AsI32(w), 8), I64Of(127))

\* v with each number in the class of the opcode that carries it: an integer for
\* INT8 and INT32, a float64 for FLOAT64
RECURSIVE Reclassified(_)
Reclassified(v) ==
    CASE v.k \in {"int", "float"} ->
            IF encode_number(v)[1] = OP_FLOAT64 THEN FloatV(as_f64(v))
            ELSE IntV(IF v.k = "int" THEN v.w ELSE SignExtend(F64AsI32(v.w), 8))
      [] v.k = "arr" -> ArrV([i \in 1..Len(v.a) |-> Reclassified(v.a[i])])
      [] v.k = "obj" -> ObjV([i \in 1..Len(v.m) |-> <<v.m[i][1], Reclassified(v.m[i][2])>>])
      [] OTHER -> v

\* v with each float of zero fractional part within the 32-bit integer range
\* made an integer, and nothing else changed
RECURSIVE FloatsAsIntegers(_)
FloatsAsIntegers(v) ==
    CASE v.k = "float" ->
            IF FloatInI32(v.w) THEN IntV(SignExtend(F64AsI32(v.w), 8)) ELSE v
      [] v.k = "arr" -> ArrV([i \in 1..Len(v.a) |-> FloatsAsIntegers(v.a[i])])
      [] v.k = "obj" -> ObjV([i \in 1..Len(v.m) |-> <<v.m[i][1], FloatsAsIntegers(v.m[i][2])>>])
      [] OTHER -> v

\* the opcode the numeric encoding policy gives a number
PolicyOp(v) ==
    IF v.k = "int"
    THEN IF I64Le(I64Of(-128), v.w) /\ I64Le(v.w, I64Of(127)) THEN OP_INT8
         ELSE IF I64Le(I32_MIN, v.w) /\ I64Le(v.w, I32_MAX) THEN OP_INT32
         ELSE OP_FLOAT64
    ELSE IF FloatInI8(v.w) THEN OP_INT8
         ELSE IF FloatInI32(v.w) THEN OP_INT32
         ELSE OP_FLOAT64

-----------------------------------------------------------------------------
(* Binary roundtrip *)

-----------------------------------------------------------------------------
(* Idempotence of canonicalize *)

\* C2: canonicalize applied to what canonicalize returned returns it unchanged.
C2_Idempotent == Len(canon) >= 2 => canon[2] = canon[1]

-----------------------------------------------------------------------------
(* Key-order invariance *)

\* C4: when an encoder that has encoded an object is handed the same pairs in
\* another insertion order, at any nesting level, the canonical value, the bytes
\* and the dictionary order it produces are those it produced before.
C4_KeyOrderInvariance ==
    [][(encoded # None /\ encoded' # encoded) =>
            /\ canonical' = canonical
            /\ out' = out
            /\ string_table'.entries = string_table.entries]_vars

\* an object whose pairs were not inserted in sorted order, neither at the top
\* nor one level down, has been encoded
C4_Witness ==
    /\ encoded # None
    /\ encoded.k = "obj"
    /\ keys(encoded.m) # sort(keys(encoded.m))
    /\ \E i \in 1..Len(encoded.m) :
          /\ encoded.m[i][2].k = "obj"
          /\ keys(encoded.m[i][2].m) # sort(keys(encoded.m[i][2].m))
    /\ out = encode(encoded).out
    /\ canonical # encoded

-----------------------------------------------------------------------------
(* Dedup *)

\* C5: in what encode returns the dictionary holds exactly the distinct strings
\* of the canonical value, each once, and a string that occurs K times in the
\* canonical value, as a value or as a key, is referenced K times by the id of
\* its entry.
C5_Dedup ==
    out # <<>> =>
        LET entries == string_table.entries
        IN  /\ \A i, j \in 1..Len(entries) : entries[i] = entries[j] => i = j
            /\ Range(entries) = StringsOf(canonical)
            /\ RoundTripped =>
                  /\ result.ret.kind = "ok"
                  /\ dictionary = entries
                  /\ \A i \in 1..Len(entries) :
                        Cardinality({n \in 1..Len(result.ret.ids) :
                                        result.ret.ids[n] = [big |-> FALSE, low |-> i - 1]})
                            = occurrences(canonical, entries[i])

\* a string that is both a key and twice a value has made the trip
C5_Witness ==
    /\ RoundTripped
    /\ \E s \in Range(string_table.entries) : occurrences(canonical, s) >= 3
    /\ \E s \in Range(string_table.entries) : occurrences(canonical, s) = 1

-----------------------------------------------------------------------------
(* The decoder on arbitrary bytes *)

\* C6: decode returns Ok or a typed Err for every input; it never panics.
C6_NeverPanics == result # None => result.ret.kind \in {"ok", "err"}

\* C7: decode returns an error for every input shorter than 5 bytes, for every
\* input that does not start with "TENS", and for every input whose fifth byte
\* is not 2, whatever follows.
C7_HeaderValidation ==
    result # None =>
        LET b == result.bytes
        IN  (Len(b) < 5 \/ SubSeq(b, 1, 4) # SubSeq(HEADER, 1, 4) \/ b[5] # HEADER[5])
                => result.ret.kind = "err"

\* version 3 in front of a dictionary and a tree that are well formed: an error
C7_Witness ==
    /\ result # None
    /\ result.bytes = <<84, 69, 78, 83, 3, 1, 1, 97, 7, 0>>
    /\ result.ret.kind = "err"

\* C8: no strict prefix of what encode returned decodes successfully.
C8_NoPrefixDecodes ==
    (out # <<>> /\ result # None /\ IsStrictPrefix(result.bytes, out))
        => result.ret.kind = "err"

\* C9: decode returns an error whenever a STRING_REF id or a key id it read is
\* not below the number of dictionary entries read, and a successful decode
\* yields only strings and keys that are dictionary entries.
C9_ReferenceValidation ==
    result # None =>
        /\ (\E n \in 1..Len(result.ret.ids) :
                result.ret.ids[n].big \/ result.ret.ids[n].low >= Len(dictionary))
              => result.ret.kind = "err"
        /\ result.ret.kind = "ok" => StringsOf(result.ret.value) \subseteq Range(dictionary)

\* a key id equal to the number of entries was read after a good one: an error
C9_Witness ==
    /\ result # None
    /\ result.bytes = HEADER \o <<2, 1, 97, 0>> \o <<9, 2, 0, 1, 2, 0>>
    /\ result.ret.kind = "err"
    /\ Len(result.ret.ids) = 2
    /\ result.ret.ids[2] = [big |-> FALSE, low |-> 2]

-----------------------------------------------------------------------------
(* Numeric encoding policy *)

\* C10: encode emits INT8 for an integral number in [-128, 127], INT32 for any
\* other integral number in [-2^31, 2^31-1] and FLOAT64 otherwise, for integers
\* and for floats with zero fractional part alike, -2^31 and 2^31-1 included.
C10_NumericPolicy ==
    (out # <<>> /\ canonical.k \in {"int", "float"}) => out[7] = PolicyOp(canonical)

-----------------------------------------------------------------------------
(* One encoder and one decoder, used for one document after another *)

ReuseValues ==
    {NullV, StrV(<<98>>), ArrV(<<StrV(<<98>>), StrV(<<97>>), StrV(<<98>>)>>),
     ObjV(<< <<(<<98>>), StrV(<<97>>)>>, <<(<<97>>), IntV(I64Of(-129))>> >>),
     ObjV(<< <<(<<99>>), ArrV(<<StrV(<<97, 32>>)>>)>> >>)}

\* too short; version 3; "a", "" and a reference to the second; no entry and a
\* reference to the first; an entry longer than the input after a good one; "b"
\* and an object with the key 0 twice
ReuseWires ==
    {SubSeq(HEADER, 1, 4), <<84, 69, 78, 83, 3, 1, 1, 97, 7, 0>>,
     HEADER \o <<2, 1, 97, 0, 7, 1>>, HEADER \o <<0, 7, 0>>,
     HEADER \o <<2, 1, 98, 2, 97>>, HEADER \o <<1, 1, 98, 9, 2, 0, 1, 0, 2>>}

InitReuse ==
    /\ value \in ReuseValues
    /\ canon = <<>>
    /\ string_table = StringTable_new
    /\ canonical = None
    /\ scanned = None
    /\ out = <<>>
    /\ wire \in ReuseWires
    /\ dictionary = <<>>
    /\ result = None
    /\ encoded = None
    /\ NothingElse

\* the host turns to another document
NewValue ==
    /\ value' \in ReuseValues \ {value}
    /\ UNCHANGED <<registry_vars, text_vars, canon, string_table, canonical, scanned, out, wire, dictionary, result, encoded>>

\* other bytes reach the decoder
NewWire ==
    /\ wire' \in ReuseWires \ {wire}
    /\ UNCHANGED <<registry_vars, text_vars, value, canon, string_table, canonical, scanned, out, dictionary, result, encoded>>

NextReuse == Encode \/ NewValue \/ Send \/ NewWire \/ Decode

SpecReuse == InitReuse /\ [][NextReuse]_vars

\* C11: whatever calls an encoder has served, encode(v) returns the bytes and
\* leaves the string table that a fresh encoder's encode(v) does; whatever calls
\* a decoder has served, decode(b) returns what a fresh decoder's decode(b) does.
C11_InstanceReuse ==
    /\ encoded # None =>
          /\ out = encode(encoded).out
          /\ string_table = encode(encoded).string_table
    /\ result # None =>
          \E bld \in Builds : result.ret = decode(result.bytes, <<>>, bld).result

\* the encoder has encoded one document, whose bytes are on the wire, and then
\* another; the decoder has read a dictionary and then failed on a short input
C11_Witness ==
    /\ encoded # None
    /\ out # wire
    /\ \E v \in ReuseValues : v # encoded /\ wire = encode(v).out /\ Len(wire) > 7
    /\ Len(out) > 7
    /\ result # None
    /\ result.bytes = SubSeq(HEADER, 1, 4)
    /\ dictionary # <<>>

-----------------------------------------------------------------------------
(* String canonicalization *)

\* the pieces of s between the occurrences of c
RECURSIVE SplitOn(_, _)
SplitOn(s, c) ==
    IF \A i \in 1..Len(s) : s[i] # c THEN <<s>>
    ELSE LET i == CHOOSE k \in 1..Len(s) : s[k] = c /\ \A j \in 1..(k - 1) : s[j] # c
         IN  <<SubSeq(s, 1, i - 1)>> \o SplitOn(SubSeq(s, i + 1, Len(s)), c)

\* C17: for a string s that is NFKC-normal, canonicalize returns s split on
\* the newline character, each piece stripped of trailing whitespace, the pieces
\* rejoined with newline: as many newline characters as s has, a trailing one
\* and those of empty lines included.
C17_SplitTrimJoin ==
    (Len(canon) >= 1 /\ value.k = "str" /\ nfkc(value.s) = value.s) =>
        LET pieces == SplitOn(value.s, LF)
        IN  canon[1] = StrV(join([i \in 1..Len(pieces) |-> trim_end(pieces[i])], <<LF>>))

-----------------------------------------------------------------------------
(* A StringTable on its own *)

MaxAdds == 4

TableStrs == {<<>>, <<97>>, <<98>>}

InitTable ==
    /\ value = NullV
    /\ canon = <<>>
    /\ string_table = StringTable_new
    /\ canonical = None
    /\ scanned = None
    /\ out = <<>>
    /\ wire = <<>>
    /\ dictionary = <<>>
    /\ result = None
    /\ encoded = None
    /\ NothingElse

\* StringTable::add(s), with len() read before and after
Add ==
    \E s \in TableStrs :
        LET r == add(string_table, s)
        IN  /\ Len(calls) < MaxAdds
            /\ string_table' = r.t
            /\ calls' = Append(calls, [s |-> s, id |-> r.id, len |-> Len(string_table.entries),
                                       len_after |-> Len(r.t.entries),
                                       same |-> r.t = string_table])
            /\ UNCHANGED <<registry, hasher, text_vars, value, canon, canonical, scanned, out, wire,
                           dictionary, result, encoded>>

NextTable == Add

SpecTable == InitTable /\ [][NextTable]_vars

\* C18: after any sequence of add calls the entries are distinct and the id of
\* entries[i] is i; an add of a string already there returned its id and left
\* the table as it was, an add of a new string returned the len() of before and
\* grew the table by one; and the id a call returned for a string is still the
\* id of that string.
C18_StringTable ==
    LET e == string_table.entries
        m == string_table.map
    IN  /\ \A i, j \in 1..Len(e) : e[i] = e[j] => i = j
        /\ DOMAIN m = Range(e)
        /\ \A i \in 1..Len(e) : m[e[i]] = i - 1
        /\ \A n \in 1..Len(calls) :
              /\ calls[n].s \in DOMAIN m
              /\ calls[n].id = m[calls[n].s]
              /\ IF \E k \in 1..(n - 1) : calls[k].s = calls[n].s
                 THEN calls[n].same /\ calls[n].len_after = calls[n].len
                 ELSE calls[n].id = calls[n].len /\ calls[n].len_after = calls[n].len + 1

\* a string was added, then another, then the first again
C18_Witness ==
    /\ Len(calls) = 3
    /\ calls[1].s # calls[2].s
    /\ calls[3].s = calls[1].s
    /\ calls[3].same
    /\ calls[3].id = 0
    /\ Len(string_table.entries) = 2

-----------------------------------------------------------------------------
(* The order of the dictionary *)

RECURSIVE FirstSeen(_)
FirstSeen(ss) ==
    IF ss = <<>> THEN <<>>
    ELSE LET front == FirstSeen(SubSeq(ss, 1, Len(ss) - 1))
         IN  IF ss[Len(ss)] \in Range(front) THEN front ELSE Append(front, ss[Len(ss)])

RECURSIVE ConcatAll(_)
ConcatAll(ss) == IF ss = <<>> THEN <<>> ELSE ss[1] \o ConcatAll(Tail(ss))

\* the strings of v in depth-first order: at an object its keys, sorted, ahead
\* of its values; at an array the elements by index
RECURSIVE Traversal(_)
Traversal(v) ==
    CASE v.k = "str" -> <<v.s>>
      [] v.k = "arr" -> ConcatAll([i \in 1..Len(v.a) |-> Traversal(v.a[i])])
      [] v.k = "obj" ->
            LET ks == sort(keys(v.m))
            IN  ks \o ConcatAll([i \in 1..Len(ks) |-> Traversal(get(v.m, ks[i]))])
      [] OTHER -> <<>>

\* C19: the dictionary encode writes is the first-seen order of the depth-first
\* traversal of the canonical value that registers all keys of an object, in
\* sorted order, before it visits any of the object's values.
C19_DictionaryOrder ==
    out # <<>> =>
        LET d == FirstSeen(Traversal(canonical))
            head == HEADER \o encode_varint(U32Of(Len(d))) \o dictionary_bytes(d)
        IN  /\ string_table.entries = d
            /\ Len(head) <= Len(out)
            /\ SubSeq(out, 1, Len(head)) = head

\* {"z": ["a", false, "a"], "m": {"b": "a", "a": -129}}: the keys m and z come
\* ahead of the strings of the value of m
C19_Witness ==
    /\ out # <<>>
    /\ encoded = ObjV(<< <<(<<122>>), ArrV(<<StrV(<<97>>), BoolV(FALSE), StrV(<<97>>)>>)>>,
                         <<(<<109>>),
                           ObjV(<< <<(<<98>>), StrV(<<97>>)>>, <<(<<97>>), IntV(I64Of(-129))>> >>)>> >>)
    /\ string_table.entries = << <<109>>, <<122>>, <<97>>, <<98>> >>

-----------------------------------------------------------------------------
(* The emit pass *)

\* C20: the string table at the end of encode is the one the scan pass left,
\* and every STRING_REF id and key id of the value tree is below the dictionary
\* count written ahead of the tree.
C20_EmitAllocatesNoId ==
    out # <<>> =>
        /\ string_table = scanned
        /\ RoundTripped =>
              /\ Len(dictionary) = Len(scanned.entries)
              /\ \A n \in 1..Len(result.ret.ids) :
                    /\ ~result.ret.ids[n].big
                    /\ result.ret.ids[n].low < Len(dictionary)

\* a tree with four references and more, over a dictionary of three entries or
\* more, has been written and read back
C20_Witness ==
    /\ RoundTripped
    /\ string_table = scanned
    /\ Len(scanned.entries) >= 3
    /\ Len(result.ret.ids) >= 4

-----------------------------------------------------------------------------
(* A SchemaRegistry on its own.  calculate_hash feeds the sorted keys to a      *)
(* DefaultHasher and returns its 64 bits: a function of the key sequence, the   *)
(* same in every call, of which nothing else is modelled.  The hasher variable  *)
(* holds the values it has returned so far; a sequence hashed for the first     *)
(* time gets any value.  There are fewer hash values than key sequences.        *)

MaxCalls == 3
MaxKeys == 2
MaxHash == 2

RegKeys == {<<97>>, <<98>>}
RegTypes == {"num", "str"}
KeyLists == UNION {[1..k -> RegKeys] : k \in 0..MaxKeys}
TypeLists == {<<>>, <<"num">>, <<"str", "num">>}
HashSpace == 1..MaxHash

InitRegistry ==
    /\ value = NullV
    /\ canon = <<>>
    /\ string_table = StringTable_new
    /\ canonical = None
    /\ scanned = None
    /\ out = <<>>
    /\ wire = <<>>
    /\ dictionary = <<>>
    /\ result = None
    /\ encoded = None
    /\ NothingElse

\* SchemaRegistry::get_or_register(&keys, &types), calculate_hash included
GetOrRegister ==
    \E ks \in KeyLists, types \in TypeLists, hash \in HashSpace :
        LET sk == sorted_keys(ks, types)
            r == get_or_register(registry, ks, types, hash)
        IN  /\ Len(calls) < MaxCalls
            /\ sk \in DOMAIN hasher => hash = hasher[sk]
            /\ hasher' = (sk :> hash) @@ hasher
            /\ registry' = r.self
            /\ calls' = Append(calls, [keys |-> ks, types |-> types, id |-> r.id,
                                       is_new |-> r.is_new, next_id |-> registry.next_id])
            /\ UNCHANGED <<text_vars, value, canon, string_table, canonical, scanned, out, wire,
                           dictionary, result, encoded>>

NextRegistry == GetOrRegister

SpecRegistry == InitRegistry /\ [][NextRegistry]_vars

\* the set of the keys of the n-th call, and whether an earlier call had it
KeySet(n) == Range(calls[n].keys)
SeenBefore(n) == \E k \in 1..(n - 1) : KeySet(k) = KeySet(n)

\* C12: two calls on one registry whose key arguments are set-equal return the
\* same schema id, whatever types they pass.
C12_KeySetIdentity ==
    \A i, j \in 1..Len(calls) : KeySet(i) = KeySet(j) => calls[i].id = calls[j].id

\* C13: the k-th key-set not registered before returns (k, true) and leaves a
\* schema with that id, the sorted keys and the types of the call; a key-set
\* registered before returns its first id with false and takes no id; 0 is never
\* returned and two different key-sets never share an id.
C13_IdAllocation ==
    \A n \in 1..Len(calls) :
        /\ calls[n].id # 0
        /\ \A k \in 1..Len(calls) : calls[k].id = calls[n].id => KeySet(k) = KeySet(n)
        /\ IF SeenBefore(n)
           THEN /\ ~calls[n].is_new
                /\ \E k \in 1..(n - 1) : KeySet(k) = KeySet(n) /\ calls[k].id = calls[n].id
                /\ n < Len(calls) => calls[n + 1].next_id = calls[n].next_id
           ELSE /\ calls[n].is_new
                /\ calls[n].id = Cardinality({KeySet(k) : k \in 1..n})
                /\ calls[n].id \in DOMAIN registry.schemas
                /\ registry.schemas[calls[n].id].id = calls[n].id
                /\ registry.schemas[calls[n].id].keys = sort(calls[n].keys)
                /\ Range(registry.schemas[calls[n].id].field_types) = Range(calls[n].types)

-----------------------------------------------------------------------------
(* TENS-Text (encoder.rs).  A text is a sequence of code points.               *)
(* The str and integer functions of the standard library it uses:             *)

\* Option::Some
Some(v) == [kind |-> "some", v |-> v]

\* str::trim_start, str::trim
RECURSIVE trim_start(_)
trim_start(s) == IF s # <<>> /\ is_whitespace(s[1]) THEN trim_start(Tail(s)) ELSE s

trim(s) == trim_start(trim_end(s))

\* str::starts_with, str::ends_with
starts_with(s, p) == Len(p) <= Len(s) /\ SubSeq(s, 1, Len(p)) = p
ends_with(s, p) == Len(p) <= Len(s) /\ SubSeq(s, Len(s) - Len(p) + 1, Len(s)) = p

\* str::trim_end_matches(pat): the pattern is taken off the end as often as it is there
RECURSIVE trim_end_matches(_, _)
trim_end_matches(s, p) ==
    IF p # <<>> /\ ends_with(s, p) THEN trim_end_matches(SubSeq(s, 1, Len(s) - Len(p)), p)
    ELSE s

\* the positions of s that hold whitespace, and those that hold the character c
whitespace_at(s) == {i \in 1..Len(s) : is_whitespace(s[i])}
char_at(s, c) == {i \in 1..Len(s) : s[i] = c}

\* str::split_once(delimiter): what is before and after the first of the
\* positions that match the delimiter
split_once(s, hits) ==
    LET i == Least(hits)
    IN  IF i = 0 THEN None
        ELSE Some([name |-> SubSeq(s, 1, i - 1), rest |-> SubSeq(s, i + 1, Len(s))])

\* str::split_whitespace: the non-empty pieces between runs of whitespace
RECURSIVE split_whitespace(_)
split_at(t, i) ==
    IF t = <<>> THEN <<>>
    ELSE IF i = 0 THEN <<t>>
    ELSE <<SubSeq(t, 1, i - 1)>> \o split_whitespace(SubSeq(t, i + 1, Len(t)))

split_whitespace(s) ==
    The({The({split_at(t, i) : i \in {Least(whitespace_at(t))}}) : t \in {trim_start(s)}})

is_digit(c) == c >= 48 /\ c <= 57

\* the digits of an integer text after an optional sign, None when the text is
\* not of that form; unsigned types take no '-'
Digits(s, signed) ==
    LET body == IF s # <<>> /\ (s[1] = 43 \/ (signed /\ s[1] = 45)) THEN Tail(s) ELSE s
    IN  IF body # <<>> /\ \A i \in 1..Len(body) : is_digit(body[i]) THEN Some(body) ELSE None

\* an unsigned number of n bytes times ten plus d, with the byte carried out
RECURSIVE MulAdd(_, _)
MulAdd(w, d) ==
    IF w = <<>> THEN <<d>>
    ELSE LET x == w[1] * 10 + d
         IN  <<x % 256>> \o MulAdd(Tail(w), x \div 256)

\* the digits as an unsigned number of n bytes, None when it does not fit
RECURSIVE FromDigits(_, _, _)
FromDigits(ds, acc, n) ==
    IF ds = <<>> THEN Some(acc)
    ELSE The({IF x[n + 1] # 0 THEN None ELSE FromDigits(Tail(ds), SubSeq(x, 1, n), n)
              : x \in {MulAdd(acc, ds[1] - 48)}})

Zeros(n) == [i \in 1..n |-> 0]

\* the number of an integer text as n unsigned bytes, None when the text is not
\* a number or the number does not fit
magnitude(s, signed, n) ==
    The({IF ds = None THEN None ELSE FromDigits(ds.v, Zeros(n), n) : ds \in {Digits(s, signed)}})

\* str::parse::<u32>
parse_u32(s) == magnitude(s, FALSE, 4)

\* str::parse::<usize>
parse_usize(s, bld) == magnitude(s, FALSE, bld.usize_bits \div 8)

\* str::parse::<i64>
parse_i64(s) ==
    The({IF m = None THEN None
         ELSE IF s[1] = 45
              THEN IF m.v = <<0, 0, 0, 0, 0, 0, 0, 128>> THEN m
                   ELSE IF m.v[8] >= 128 THEN None
                   ELSE Some(WFromBits(NegBits(WBits(m.v), 64), 8))
         ELSE IF m.v[8] >= 128 THEN None ELSE m
         : m \in {magnitude(s, TRUE, 8)}})

\* the k low bytes of an unsigned number divided by ten, most significant byte
\* first, rem being what the bytes above them left
RECURSIVE DivTen(_, _, _)
DivTen(w, k, rem) ==
    IF k = 0 THEN [q |-> <<>>, r |-> rem]
    ELSE The({[q |-> Append(low.q, (rem * 256 + w[k]) \div 10), r |-> low.r]
              : low \in {DivTen(w, k - 1, (rem * 256 + w[k]) % 10)}})

\* the decimal digits of an unsigned number of bytes
RECURSIVE ToDigits(_)
ToDigits(w) ==
    The({IF \A i \in 1..Len(w) : d.q[i] = 0 THEN <<48 + d.r>>
         ELSE Append(ToDigits(d.q), 48 + d.r)
         : d \in {DivTen(w, Len(w), 0)}})

\* i64::to_string
i64_to_string(w) ==
    IF w[8] >= 128
    THEN <<45>> \o ToDigits(IF w = <<0, 0, 0, 0, 0, 0, 0, 128>> THEN w
                            ELSE WFromBits(NegBits(WBits(w), 64), 8))
    ELSE ToDigits(w)

\* usize::to_string, of a number the model holds as an integer
RECURSIVE usize_to_string(_)
usize_to_string(n) ==
    IF n < 10 THEN <<48 + n>> ELSE Append(usize_to_string(n \div 10), 48 + (n % 10))


\* the number of digits s starts with
LeadDigits(s) ==
    LET i == Least({j \in 1..Len(s) : ~is_digit(s[j])}) IN IF i = 0 THEN Len(s) ELSE i - 1

\* char::to_ascii_lowercase
to_ascii_lowercase(c) == IF c >= 65 /\ c <= 90 THEN c + 32 ELSE c

\* whether str::parse::<f64> accepts s: a sign, then digits with a fraction and an
\* exponent (one digit at least before the exponent, one at least in it), or
\* one of the words nan, inf and infinity in any case
is_f64(s) ==
    LET body == IF s # <<>> /\ s[1] \in {43, 45} THEN Tail(s) ELSE s
        n1 == LeadDigits(body)
        r1 == SubSeq(body, n1 + 1, Len(body))
        dot == r1 # <<>> /\ r1[1] = 46
        r2 == IF dot THEN Tail(r1) ELSE r1
        n2 == IF dot THEN LeadDigits(r2) ELSE 0
        r3 == SubSeq(r2, n2 + 1, Len(r2))
        e == IF Len(r3) >= 2 /\ r3[2] \in {43, 45} THEN SubSeq(r3, 3, Len(r3)) ELSE Tail(r3)
        word == [i \in 1..Len(body) |-> to_ascii_lowercase(body[i])]
    IN  \/ word \in {<<110, 97, 110>>, <<105, 110, 102>>,
                     <<105, 110, 102, 105, 110, 105, 116, 121>>}
        \/ /\ n1 + n2 >= 1
           /\ \/ r3 = <<>>
              \/ /\ r3[1] \in {101, 69}
                 /\ e # <<>>
                 /\ \A i \in 1..Len(e) : is_digit(e[i])

\* The f64 values whose decimal texts the model holds: the value, what Display
\* writes for it (the shortest decimal that reads back, no ".0" on a whole
\* number) and what serde_json writes for it (the same with ".0" on a whole
\* number).  0.0, 0.5, 1.5, -1.5, 3.0, 3.14
F64Texts ==
    {[w |-> <<0, 0, 0, 0, 0, 0, 0, 0>>, display |-> <<48>>, json |-> <<48, 46, 48>>],
     [w |-> <<0, 0, 0, 0, 0, 0, 224, 63>>, display |-> <<48, 46, 53>>, json |-> <<48, 46, 53>>],
     [w |-> <<0, 0, 0, 0, 0, 0, 248, 63>>, display |-> <<49, 46, 53>>, json |-> <<49, 46, 53>>],
     [w |-> <<0, 0, 0, 0, 0, 0, 248, 191>>, display |-> <<45, 49, 46, 53>>,
      json |-> <<45, 49, 46, 53>>],
     [w |-> <<0, 0, 0, 0, 0, 0, 8, 64>>, display |-> <<51>>, json |-> <<51, 46, 48>>],
     [w |-> <<31, 133, 235, 81, 184, 30, 9, 64>>, display |-> <<51, 46, 49, 52>>,
      json |-> <<51, 46, 49, 52>>]}

\* format!("{}", f) of a finite f
f64_display(w) == (CHOOSE e \in F64Texts : e.w = w).display

\* serde_json's text of a finite f
f64_json(w) == (CHOOSE e \in F64Texts : e.w = w).json

\* str::parse::<f64>: the words give NaN and the infinities, a decimal text gives
\* the nearest f64
parse_f64(s) ==
    LET body == IF s # <<>> /\ s[1] \in {43, 45} THEN Tail(s) ELSE s
        word == [i \in 1..Len(body) |-> to_ascii_lowercase(body[i])]
        top == IF s[1] = 45 THEN 255 ELSE 127
    IN  IF ~is_f64(s) THEN None
        ELSE IF word = <<110, 97, 110>> THEN Some(<<0, 0, 0, 0, 0, 0, 248, top>>)
        ELSE IF word \in {<<105, 110, 102>>, <<105, 110, 102, 105, 110, 105, 116, 121>>}
             THEN Some(<<0, 0, 0, 0, 0, 0, 240, top>>)
        ELSE Some((CHOOSE e \in F64Texts : s \in {e.display, e.json}).w)

\* infer_type
infer_type(v) ==
    CASE v.k = "null" -> <<110, 117, 108, 108>>
      [] v.k = "bool" -> <<98, 111, 111, 108>>
      [] v.k \in {"int", "float"} -> <<110, 117, 109>>
      [] v.k = "str" -> <<115, 116, 114>>
      [] v.k = "arr" -> <<115, 116, 114, 91, 93>>
      [] v.k = "obj" -> <<115, 116, 114>>

\* " \ | > , = { } [ ] @ #
SpecialChars == {34, 92, 124, 62, 44, 61, 123, 125, 91, 93, 64, 35}

\* needs_quoting
needs_quoting(s) ==
    \/ s = <<>>
    \/ s \in {<<95>>, <<116, 114, 117, 101>>, <<102, 97, 108, 115, 101>>}
    \/ s[1] \in {64, 35} /\ parse_u32(Tail(s)) # None
    \/ is_f64(s)
    \/ \E i \in 1..Len(s) : is_whitespace(s[i]) \/ s[i] \in SpecialChars

\* quote_string
quote_string(s) ==
    LET escaped(c) == CASE c = 34 -> <<92, 34>>
                        [] c = 92 -> <<92, 92>>
                        [] c = 10 -> <<92, 110>>
                        [] c = 13 -> <<92, 114>>
                        [] c = 9 -> <<92, 116>>
                        [] OTHER -> <<c>>
    IN  <<34>> \o ConcatAll([i \in 1..Len(s) |-> escaped(s[i])]) \o <<34>>

\* serde_json's text of a string: \" \\ \n \r \t \b \f, \u00XX for the other
\* characters below U+0020
json_string(s) ==
    LET hex(n) == IF n < 10 THEN 48 + n ELSE 87 + n
        escaped(c) == CASE c = 34 -> <<92, 34>>
                        [] c = 92 -> <<92, 92>>
                        [] c = 10 -> <<92, 110>>
                        [] c = 13 -> <<92, 114>>
                        [] c = 9 -> <<92, 116>>
                        [] c = 8 -> <<92, 98>>
                        [] c = 12 -> <<92, 102>>
                        [] c < 32 /\ c \notin {8, 9, 10, 12, 13} ->
                              <<92, 117, 48, 48, hex(c \div 16), hex(c % 16)>>
                        [] OTHER -> <<c>>
    IN  <<34>> \o ConcatAll([i \in 1..Len(s) |-> escaped(s[i])]) \o <<34>>

\* serde_json::to_string: the compact text, a map in the order of its keys
RECURSIVE to_string(_)
to_string(v) ==
    CASE v.k = "null" -> <<110, 117, 108, 108>>
      [] v.k = "bool" -> IF v.b THEN <<116, 114, 117, 101>> ELSE <<102, 97, 108, 115, 101>>
      [] v.k = "int" -> i64_to_string(v.w)
      [] v.k = "float" -> f64_json(v.w)
      [] v.k = "str" -> json_string(v.s)
      [] v.k = "arr" ->
            <<91>> \o join([i \in 1..Len(v.a) |-> to_string(v.a[i])], <<44>>) \o <<93>>
      [] v.k = "obj" ->
            LET m == sort_by_key(v.m)
            IN  <<123>> \o join([i \in 1..Len(m) |->
                                    json_string(m[i][1]) \o <<58>> \o to_string(m[i][2])],
                                <<44>>) \o <<125>>

\* the HashMap from each dictionary entry to its index
dict_map_of(dict_entries) ==
    [s \in Range(dict_entries) |->
        (CHOOSE i \in 1..Len(dict_entries) : dict_entries[i] = s) - 1]

\* format_tens_text_value
format_tens_text_value(v, dict_map) ==
    CASE v.k = "null" -> <<95>>
      [] v.k = "bool" -> IF v.b THEN <<116, 114, 117, 101>> ELSE <<102, 97, 108, 115, 101>>
      [] v.k = "int" -> i64_to_string(v.w)
      [] v.k = "float" ->
            IF is_nan(v.w) THEN <<34, 78, 97, 78, 34>>
            ELSE IF is_infinite(v.w)
                 THEN IF ~is_sign_negative(v.w)
                      THEN <<34, 73, 110, 102, 105, 110, 105, 116, 121, 34>>
                      ELSE <<34, 45, 73, 110, 102, 105, 110, 105, 116, 121, 34>>
            ELSE IF F64IsZero(v.w) /\ is_sign_negative(v.w) THEN <<45, 48>>
            ELSE f64_display(v.w)
      [] v.k = "str" ->
            IF v.s \in DOMAIN dict_map THEN <<64>> \o usize_to_string(dict_map[v.s])
            ELSE IF needs_quoting(v.s) THEN quote_string(v.s)
            ELSE v.s
      [] v.k \in {"arr", "obj"} -> quote_string(to_string(v))


\* Result<String, String> and Result<Value, String>
TextOk(v) == [kind |-> "ok", v |-> v]
TextErr(msg) == [kind |-> "err", msg |-> msg]

\* "@version 1\n", "@schema data", "@dict", "data"
VERSION_LINE == <<64, 118, 101, 114, 115, 105, 111, 110, 32, 49, 10>>
SCHEMA_DATA == <<64, 115, 99, 104, 101, 109, 97, 32, 100, 97, 116, 97>>
DICT == <<64, 100, 105, 99, 116>>
schema_name == <<100, 97, 116, 97>>

\* Value::as_object
is_object(v) == v.k = "obj"

\* whether some record holds an array at the key
is_array_field(records, key) ==
    \E r \in 1..Len(records) :
        /\ is_object(records[r])
        /\ HasKey(records[r].m, key)
        /\ get(records[r].m, key).k = "arr"

\* string_counts: for each string, at how many (record, key) places it is the value
string_counts(records, ks) ==
    LET places == {p \in (1..Len(records)) \X (1..Len(ks)) :
                      /\ is_object(records[p[1]])
                      /\ HasKey(records[p[1]].m, ks[p[2]])
                      /\ get(records[p[1]].m, ks[p[2]]).k = "str"}
        at(p) == get(records[p[1]].m, ks[p[2]]).s
    IN  [s \in {at(p) : p \in places} |-> Cardinality({p \in places : at(p) = s})]

\* the strings of a set as a sorted Vec
RECURSIVE sorted(_)
least_first(T, least) == <<least>> \o sorted(T \ {least})

sorted(S) ==
    The({IF T = {} THEN <<>>
         ELSE The({least_first(T, x) : x \in {CHOOSE x \in T : \A y \in T : ~StrLt(y, x)}})
         : T \in {S}})

\* a dictionary of every string that was counted
dict_entries_all(counts) == sorted(DOMAIN counts)

\* dict_entries: the strings counted twice or more, sorted
dict_entries_of(counts) == sorted({s \in DOMAIN counts : counts[s] >= 2})

\* the lines of one record
record_lines(obj, ks, records, dict_map) ==
    LET field(key) ==
            IF ~HasKey(obj, key) THEN <<>>
            ELSE LET val == get(obj, key)
                     line(x) == <<32, 32>> \o key \o <<32>>
                                \o format_tens_text_value(x, dict_map) \o <<LF>>
                 IN  IF is_array_field(records, key)
                     THEN IF val.k = "arr"
                          THEN ConcatAll([i \in 1..Len(val.a) |-> line(val.a[i])])
                          ELSE <<>>
                     ELSE line(val)
    IN  schema_name \o <<LF>> \o ConcatAll([i \in 1..Len(ks) |-> field(ks[i])])

\* encode_tens_text from "3. Build output" on
encode_records(records, ks, dict_entries, encoding) ==
    LET obj == records[1].m
        types == [i \in 1..Len(ks) |-> infer_type(get(obj, ks[i]))]
        dict_map == dict_map_of(dict_entries)
        encoding_line == IF encoding = None THEN <<>>
                         ELSE <<64, 101, 110, 99, 111, 100, 105, 110, 103, 32>>
                              \o encoding.v \o <<LF>>
        schema_line ==
            SCHEMA_DATA
            \o ConcatAll([i \in 1..Len(ks) |->
                            <<32>> \o ks[i] \o <<58>> \o types[i]
                            \o (IF is_array_field(records, ks[i]) THEN <<91, 93>> ELSE <<>>)])
            \o <<LF>>
        dict_line ==
            IF dict_entries = <<>> THEN <<>>
            ELSE DICT
                 \o ConcatAll([i \in 1..Len(dict_entries) |->
                                 <<32>> \o (IF needs_quoting(dict_entries[i])
                                            THEN quote_string(dict_entries[i])
                                            ELSE dict_entries[i])])
                 \o <<LF>>
        blocks == ConcatAll([r \in 1..Len(records) |->
                                IF is_object(records[r])
                                THEN record_lines(records[r].m, ks, records, dict_map)
                                ELSE <<>>])
    IN  TextOk(VERSION_LINE \o encoding_line \o schema_line \o dict_line \o <<LF>> \o blocks)

\* encode_tens_text of the canonical value
encode_canonical(canonical_data, encoding) ==
    LET records == IF canonical_data.k = "arr" THEN canonical_data.a ELSE <<canonical_data>>
    IN  IF canonical_data.k \notin {"arr", "obj"}
        THEN TextErr("TENS-Text requires an array of objects or a single object")
        ELSE IF records = <<>> THEN TextOk(VERSION_LINE)
        ELSE IF ~is_object(records[1]) THEN TextErr("Records must be objects")
        ELSE The({The({encode_records(records, ks, dict_entries, encoding)
                       : dict_entries \in {dict_entries_of(string_counts(records, ks))}})
                  : ks \in {sort(keys(records[1].m))}})

\* encode_tens_text
encode_tens_text(data, encoding) ==
    The({encode_canonical(canonical_data, encoding) : canonical_data \in {canonicalize(data)}})

\* the loop over the characters after an opening quote: the text up to the
\* closing quote, with \n, \r and \t read back and any other escaped character
\* taken as itself, and what follows it; when closing is FALSE a quote is a
\* character like any other and the loop runs to the end
RECURSIVE unquote(_, _, _)
unquote(chars, s, closing) ==
    IF chars = <<>> THEN [s |-> s, rest |-> <<>>]
    ELSE IF chars[1] = 92
         THEN IF Len(chars) = 1 THEN [s |-> s, rest |-> <<>>]
              ELSE LET c == chars[2]
                       x == CASE c = 110 -> 10 [] c = 114 -> 13 [] c = 116 -> 9 [] OTHER -> c
                   IN  unquote(Tail(Tail(chars)), Append(s, x), closing)
    ELSE IF closing /\ chars[1] = 34 THEN [s |-> s, rest |-> Tail(chars)]
    ELSE unquote(Tail(chars), Append(s, chars[1]), closing)

\* the loop of parse_dict_line over the characters of the line
RECURSIVE dict_tokens(_)
dict_token(t) ==
    IF t = <<>> THEN <<>>
    ELSE IF t[1] = 34
         THEN The({<<q.s>> \o dict_tokens(q.rest) : q \in {unquote(Tail(t), <<>>, TRUE)}})
    ELSE The({IF i = 0 THEN <<t>>
              ELSE <<SubSeq(t, 1, i - 1)>> \o dict_tokens(SubSeq(t, i, Len(t)))
              : i \in {Least(whitespace_at(t))}})

dict_tokens(chars) == The({dict_token(t) : t \in {trim_start(chars)}})

\* parse_dict_line
parse_dict_line(line) ==
    dict_tokens(trim(IF starts_with(line, DICT) THEN SubSeq(line, Len(DICT) + 1, Len(line))
                     ELSE <<>>))

\* the value of a usize as an index below n, None when it is n or more
index_below(w, n) ==
    IF w[1] < n /\ \A j \in 2..Len(w) : w[j] = 0 THEN Some(w[1]) ELSE None

\* parse_tens_text_value of a token that is not "_", "true", "false", a
\* reference or a quoted string: an integer, else a float, else the token
parse_number(raw) ==
    The({IF i # None THEN TextOk(IntV(i.v))
         ELSE The({IF f # None THEN TextOk(json_f64(f.v)) ELSE TextOk(StrV(raw))
                   : f \in {parse_f64(raw)}})
         : i \in {parse_i64(raw)}})

\* parse_tens_text_value of a token that starts with '@'
parse_reference(raw, dict, bld) ==
    The({IF idx # None /\ index_below(idx.v, Len(dict)) # None
         THEN TextOk(StrV(dict[index_below(idx.v, Len(dict)).v + 1]))
         ELSE TextOk(StrV(raw))
         : idx \in {parse_usize(Tail(raw), bld)}})

\* parse_tens_text_value; slicing a lone quote between its first and its last
\* character panics
parse_tens_text_value(raw, dict, bld) ==
    IF raw = <<95>> THEN TextOk(NullV)
    ELSE IF raw = <<116, 114, 117, 101>> THEN TextOk(BoolV(TRUE))
    ELSE IF raw = <<102, 97, 108, 115, 101>> THEN TextOk(BoolV(FALSE))
    ELSE IF starts_with(raw, <<64>>) THEN parse_reference(raw, dict, bld)
    ELSE IF starts_with(raw, <<34>>) /\ ends_with(raw, <<34>>)
         THEN IF Len(raw) = 1 THEN [kind |-> "panic", why |-> "slice index"]
              ELSE TextOk(StrV(unquote(SubSeq(raw, 2, Len(raw) - 1), <<>>, FALSE).s))
    ELSE parse_number(raw)

\* decode_tens_text before the first line
TextDecoder_new ==
    [dict |-> <<>>, schema_name |-> <<>>, records |-> <<>>, current_record |-> None,
     array_fields |-> {}, panicked |-> FALSE]

\* current_record.take() and the push of the record that was in progress
flush(st) ==
    IF st.current_record = None THEN st
    ELSE [st EXCEPT !.records = Append(@, ObjV(st.current_record.v)), !.current_record = None]

\* the names of the "@schema" line that are declared with a type ending in "[]"
array_names(parts) ==
    LET fields == {split_once(parts[i], char_at(parts[i], 58)) : i \in 3..Len(parts)}
    IN  {f.v.name : f \in {x \in fields : x # None /\ ends_with(x.v.rest, <<91, 93>>)}}

\* the field line of decode_tens_text: the value is pushed to the array of a
\* repeating field, and replaces the value of any other field
decode_field(st, name, parsed_value) ==
    LET rec == st.current_record.v
        pushed == IF ~HasKey(rec, name) THEN insert(rec, name, ArrV(<<parsed_value>>))
                  ELSE IF get(rec, name).k = "arr"
                       THEN insert(rec, name, ArrV(Append(get(rec, name).a, parsed_value)))
                  ELSE rec
    IN  IF name \in st.array_fields THEN [st EXCEPT !.current_record = Some(pushed)]
        ELSE [st EXCEPT !.current_record = Some(insert(rec, name, parsed_value))]

\* the line split at its first whitespace, when it is split
decode_split(st, field, bld) ==
    IF field = None THEN st
    ELSE The({IF parsed_value.kind = "panic" THEN [st EXCEPT !.panicked = TRUE]
              ELSE decode_field(st, field.v.name, parsed_value.v)
              : parsed_value \in {The({parse_tens_text_value(raw, st.dict, bld)
                                       : raw \in {trim(field.v.rest)}})}})

\* one pass of the loop of decode_tens_text over a line of the input
decode_trimmed(st, line, trimmed, bld) ==
    IF st.panicked THEN st
    ELSE IF trimmed = <<>> \/ starts_with(trimmed, <<35>>) THEN st
    ELSE IF starts_with(trimmed, <<64, 118, 101, 114, 115, 105, 111, 110>>) THEN st
    ELSE IF starts_with(trimmed, <<64, 101, 110, 99, 111, 100, 105, 110, 103>>) THEN st
    ELSE IF starts_with(trimmed, <<64, 115, 99, 104, 101, 109, 97>>)
         THEN The({IF Len(parts) >= 2
                   THEN [st EXCEPT !.schema_name = parts[2],
                                   !.array_fields = @ \cup array_names(parts)]
                   ELSE st
                   : parts \in {split_whitespace(trimmed)}})
    ELSE IF starts_with(trimmed, DICT) THEN [st EXCEPT !.dict = parse_dict_line(trimmed)]
    ELSE IF trimmed = st.schema_name
         THEN [flush(st) EXCEPT !.current_record = Some(<<>>)]
    ELSE IF starts_with(line, <<32, 32>>) /\ st.current_record # None
         THEN The({decode_split(st, field, bld)
                   : field \in {split_once(trimmed, whitespace_at(trimmed))}})
    ELSE st

decode_line(st, line, bld) == The({decode_trimmed(st, line, t, bld) : t \in {trim(line)}})

RECURSIVE decode_lines(_, _, _, _)
decode_lines(st, ls, k, bld) ==
    IF k > Len(ls) THEN st
    ELSE The({decode_lines(next, ls, k + 1, bld) : next \in {decode_line(st, ls[k], bld)}})

\* decode_tens_text
decode_tens_text(input, bld) ==
    The({IF st.panicked THEN [kind |-> "panic", why |-> "slice index"]
         ELSE IF Len(st.records) = 1 THEN TextOk(st.records[1])
         ELSE TextOk(ArrV(st.records))
         : st \in {The({flush(decode_lines(TextDecoder_new, ls, 1, bld))
                        : ls \in {lines(input)}})}})

-----------------------------------------------------------------------------
(* The text codec: encode_tens_text on a value, decode_tens_text on the text   *)
(* it gave.  text holds the last call of encode_tens_text, parsed the last     *)
(* call of decode_tens_text.                                                   *)

MaxRecords == 2

\* {}  {"a":"a"}  {"a":"b","b":"a"}  {"b":"a"}  {"a":1000,"b":null}
\* {"a":true,"b":"a b"}  {"":-129}  {"a":["a","a"]}  {"a":"@0"}
\* {"b":"a","a":1000}  {"a":{"b":"a"}}  {"a":0.5}
Records ==
    {ObjV(<<>>),
     ObjV(<< <<(<<97>>), StrV(<<97>>)>> >>),
     ObjV(<< <<(<<97>>), StrV(<<98>>)>>, <<(<<98>>), StrV(<<97>>)>> >>),
     ObjV(<< <<(<<98>>), StrV(<<97>>)>> >>),
     ObjV(<< <<(<<97>>), IntV(I64Of(1000))>>, <<(<<98>>), NullV>> >>),
     ObjV(<< <<(<<97>>), BoolV(TRUE)>>, <<(<<98>>), StrV(<<97, 32, 98>>)>> >>),
     ObjV(<< <<(<<>>), IntV(I64Of(-129))>> >>),
     ObjV(<< <<(<<97>>), ArrV(<<StrV(<<97>>), StrV(<<97>>)>>)>> >>),
     ObjV(<< <<(<<97>>), StrV(<<64, 48>>)>> >>),
     ObjV(<< <<(<<98>>), StrV(<<97>>)>>, <<(<<97>>), IntV(I64Of(1000))>> >>),
     ObjV(<< <<(<<97>>), ObjV(<< <<(<<98>>), StrV(<<97>>)>> >>)>> >>),
     ObjV(<< <<(<<97>>), FloatV(<<0, 0, 0, 0, 0, 0, 224, 63>>)>> >>)}

\* 5  "a"  null
NonRecords == {IntV(I64Of(5)), StrV(<<97>>), NullV}

TextValues ==
    Records \cup NonRecords
    \cup {ArrV(a) : a \in UNION {[1..k -> Records \cup NonRecords] : k \in 0..MaxRecords}}

\* no label, "a"
Encodings == {None, Some(<<97>>)}

InitText ==
    /\ value \in TextValues
    /\ canon = <<>>
    /\ string_table = StringTable_new
    /\ canonical = None
    /\ scanned = None
    /\ out = <<>>
    /\ wire = <<>>
    /\ dictionary = <<>>
    /\ result = None
    /\ encoded = None
    /\ NothingElse

\* encode_tens_text(&value, encoding)
EncodeText ==
    \E encoding \in Encodings :
        /\ text' = [value |-> value, encoding |-> encoding,
                    ret |-> encode_tens_text(value, encoding)]
        /\ parsed' = None
        /\ UNCHANGED <<registry_vars, value, canon, string_table, canonical, scanned, out, wire,
                       dictionary, result, encoded>>

\* decode_tens_text(&text) on the text the encoder returned, on any of the builds
DecodeText ==
    \E bld \in Builds :
        /\ text # None
        /\ text.ret.kind = "ok"
        /\ parsed' = [input |-> text.ret.v, ret |-> decode_tens_text(text.ret.v, bld)]
        /\ UNCHANGED <<registry_vars, text, value, canon, string_table, canonical, scanned, out,
                       wire, dictionary, result, encoded>>

NextText == EncodeText \/ DecodeText

SpecText == InitText /\ [][NextText]_vars


-----------------------------------------------------------------------------
(* Properties of the text codec *)

\* the records of a value: the elements of its canonical form when that is an
\* array, the canonical form itself otherwise
RecordsOf(v) ==
    LET c == canonicalize(v) IN IF c.k = "arr" THEN c.a ELSE <<c>>

\* the canonical root is one object, or an array of objects only
RecordShape(v) ==
    LET c == canonicalize(v)
    IN  c.k = "obj" \/ (c.k = "arr" /\ \A i \in 1..Len(c.a) : c.a[i].k = "obj")

\* C14: encode_tens_text returns an error exactly when the canonical root is
\* neither a single object nor an array whose elements are all objects, at any
\* position; otherwise it returns Ok.
C14_SchemaError ==
    text # None => (text.ret.kind = "err" <=> ~RecordShape(text.value))

\* the keys of the first record, and the keys of all the records
FirstKeys(recs) == IF recs # <<>> /\ recs[1].k = "obj" THEN Range(keys(recs[1].m)) ELSE {}
AllKeys(recs) == UNION {Range(keys(recs[r].m)) : r \in {i \in 1..Len(recs) : recs[i].k = "obj"}}

\* the places (record, key) of recs, among the keys ks, whose value is the string s
Places(recs, ks, s) ==
    {p \in (1..Len(recs)) \X ks :
        /\ recs[p[1]].k = "obj"
        /\ HasKey(recs[p[1]].m, p[2])
        /\ get(recs[p[1]].m, p[2]) = StrV(s)}

\* the strings that are a value of recs under one of the keys ks
ScalarStrings(recs, ks) ==
    {get(recs[p[1]].m, p[2]).s :
        p \in {q \in (1..Len(recs)) \X ks :
                  /\ recs[q[1]].k = "obj"
                  /\ HasKey(recs[q[1]].m, q[2])
                  /\ get(recs[q[1]].m, q[2]).k = "str"}}

\* the strings that occur twice or more under the keys ks, in lexicographic order
Repeated(recs, ks) ==
    sorted({s \in ScalarStrings(recs, ks) : Cardinality(Places(recs, ks, s)) >= 2})

\* the "@dict" line that lists the entries, each token quoted when it has to be
DictLine(entries) ==
    DICT \o ConcatAll([i \in 1..Len(entries) |->
                         <<32>> \o (IF needs_quoting(entries[i]) THEN quote_string(entries[i])
                                    ELSE entries[i])])

\* the lines of a text that start with "@dict", in order
RECURSIVE DictLines(_)
DictLines(ls) ==
    IF ls = <<>> THEN <<>>
    ELSE (IF starts_with(ls[1], DICT) THEN <<ls[1]>> ELSE <<>>) \o DictLines(Tail(ls))

\* the lines of the j-th record block: those after the j-th line "data" and
\* before the next one
Block(ls, j) ==
    LET markers == {i \in 1..Len(ls) : ls[i] = schema_name}
        start == CHOOSE i \in markers : Cardinality({x \in markers : x < i}) = j - 1
        later == {i \in markers : i > start}
        end == IF later = {} THEN Len(ls) + 1 ELSE CHOOSE i \in later : \A x \in later : i <= x
    IN  {ls[i] : i \in (start + 1)..(end - 1)}

\* the line "  key @index"
RefLine(key, index) == <<32, 32>> \o key \o <<32, 64>> \o usize_to_string(index)

\* the text lists the entries in its "@dict" line, has no such line when there
\* is none, and each record shows an entry it holds under a field, or as an
\* element of an array under a field, as "@" and the index of the entry
ListsDictionary(t, recs, entries) ==
    LET ls == lines(t)
        objs == {i \in 1..Len(recs) : recs[i].k = "obj"}
        nth(r) == Cardinality({i \in objs : i <= r})
        index(s) == (CHOOSE i \in 1..Len(entries) : entries[i] = s) - 1
        shown(r, key, x) ==
            (x.k = "str" /\ x.s \in Range(entries))
                => RefLine(key, index(x.s)) \in Block(ls, nth(r))
    IN  /\ DictLines(ls) = IF entries = <<>> THEN <<>> ELSE <<DictLine(entries)>>
        /\ \A r \in objs : \A key \in FirstKeys(recs) :
              HasKey(recs[r].m, key) =>
                  LET val == get(recs[r].m, key)
                  IN  IF is_array_field(recs, key)
                      THEN val.k = "arr" => \A i \in 1..Len(val.a) : shown(r, key, val.a[i])
                      ELSE shown(r, key, val)

\* C15 as stated: the "@dict" line lists exactly the scalar strings that occur
\* twice or more over any field of all records, sorted, indices from 0; it is
\* absent when there is none; a record line whose value is a dictionary string
\* reads "@" and its index.
C15_DictionaryAsStated ==
    (text # None /\ text.ret.kind = "ok") =>
        LET recs == RecordsOf(text.value)
        IN  ListsDictionary(text.ret.v, recs, Repeated(recs, AllKeys(recs)))

\* C15: the "@dict" line lists exactly the scalar strings that occur twice or
\* more under the fields of the field list (the keys of the first record) over
\* all records, sorted, indices from 0; it is absent when there is none; a
\* record line whose value is a dictionary string reads "@" and its index.
C15_Dictionary ==
    (text # None /\ text.ret.kind = "ok") =>
        LET recs == RecordsOf(text.value)
        IN  ListsDictionary(text.ret.v, recs, Repeated(recs, FirstKeys(recs)))

\* three records hold "a" under the same field: the text has "@dict a" and each
\* of its blocks the line "  a @0"
C15_Witness ==
    /\ text # None
    /\ text.ret.kind = "ok"
    /\ LET recs == RecordsOf(text.value)
           ls == lines(text.ret.v)
       IN  /\ Len(recs) >= 2
           /\ \A r \in 1..Len(recs) : recs[r] = ObjV(<< <<(<<97>>), StrV(<<97>>)>> >>)
           /\ DictLines(ls) = << DICT \o <<32, 97>> >>
           /\ \A r \in 1..Len(recs) : RefLine(<<97>>, 0) \in Block(ls, r)

\* C16: for an array of two or more records with one key set, keys without
\* whitespace or special characters, and values that are null, booleans,
\* integers or strings, decode_tens_text of the text of encode_tens_text
\* succeeds and gives the canonical form, records in order, with or without a
\* dictionary.
C16_TextRoundtrip ==
    (parsed # None /\ text # None /\ text.ret.kind = "ok" /\ parsed.input = text.ret.v) =>
        LET v == text.value
            plain(key) == \A i \in 1..Len(key) :
                              ~is_whitespace(key[i]) /\ key[i] \notin SpecialChars
            uniform ==
                /\ v.k = "arr"
                /\ Len(v.a) >= 2
                /\ \A i \in 1..Len(v.a) :
                      /\ v.a[i].k = "obj"
                      /\ Range(keys(v.a[i].m)) = Range(keys(v.a[1].m))
                      /\ \A f \in 1..Len(v.a[i].m) :
                            /\ plain(v.a[i].m[f][1])
                            /\ v.a[i].m[f][2].k \in {"null", "bool", "int", "str"}
        IN  uniform => parsed.ret = TextOk(canonicalize(v))


\* the lines of the j-th record block, in order
BlockLines(ls, j) ==
    LET markers == {i \in 1..Len(ls) : ls[i] = schema_name}
        start == CHOOSE i \in markers : Cardinality({x \in markers : x < i}) = j - 1
        later == {i \in markers : i > start}
        end == IF later = {} THEN Len(ls) + 1 ELSE CHOOSE i \in later : \A x \in later : i <= x
    IN  SubSeq(ls, start + 1, end - 1)

\* the keys of the lines a record is to have: for each field of the field list,
\* in order, the key once for a value that is not an array, once per element
\* for an array, and not at all when the record has no such key
LineKeys(rec, ks) ==
    ConcatAll([i \in 1..Len(ks) |->
                  IF ~HasKey(rec, ks[i]) THEN <<>>
                  ELSE IF get(rec, ks[i]).k = "arr"
                       THEN [e \in 1..Len(get(rec, ks[i]).a) |-> ks[i]]
                  ELSE <<ks[i]>>])

\* C21: each record is written as the marker line "data" and then, for each
\* field of the field list, one line per scalar value the record holds, none
\* for a field it does not hold, and one line per element of an array; no value
\* of a record is dropped because another record holds an array at its key.
C21_RecordEmission ==
    (text # None /\ text.ret.kind = "ok") =>
        LET recs == RecordsOf(text.value)
            ls == lines(text.ret.v)
            objs == {i \in 1..Len(recs) : recs[i].k = "obj"}
            ks == sort(keys(recs[1].m))
        IN  recs # <<>> =>
                /\ Cardinality({i \in 1..Len(ls) : ls[i] = schema_name}) = Cardinality(objs)
                /\ \A r \in objs :
                      LET block == BlockLines(ls, Cardinality({i \in objs : i <= r}))
                          expected == LineKeys(recs[r].m, ks)
                      IN  /\ Len(block) = Len(expected)
                          /\ \A j \in 1..Len(block) :
                                starts_with(block[j], <<32, 32>> \o expected[j] \o <<32>>)


-----------------------------------------------------------------------------
(* The text decoder alone, on lines that no encoder wrote *)

MaxLines == 3

\* "@version 1"  "@schema data a:num"  "@schema d"  "data"  "d"  "  data"
\* "  a 1"  "  b @0"  "  a """ (a lone quote)  "# c"  ""
InputLines ==
    {<<64, 118, 101, 114, 115, 105, 111, 110, 32, 49>>,
     <<64, 115, 99, 104, 101, 109, 97, 32, 100, 97, 116, 97, 32, 97, 58, 110, 117, 109>>,
     <<64, 115, 99, 104, 101, 109, 97, 32, 100>>,
     <<100, 97, 116, 97>>,
     <<100>>,
     <<32, 32, 100, 97, 116, 97>>,
     <<32, 32, 97, 32, 49>>,
     <<32, 32, 98, 32, 64, 48>>,
     <<32, 32, 97, 32, 34>>,
     <<35, 32, 99>>,
     <<>>}

\* the texts of up to MaxLines of these lines, each ended by '\n'
TextInputs ==
    {ConcatAll([i \in 1..Len(ls) |-> ls[i] \o <<LF>>]) :
        ls \in UNION {[1..k -> InputLines] : k \in 0..MaxLines}}

InitLines ==
    /\ value = NullV
    /\ canon = <<>>
    /\ string_table = StringTable_new
    /\ canonical = None
    /\ scanned = None
    /\ out = <<>>
    /\ wire = <<>>
    /\ dictionary = <<>>
    /\ result = None
    /\ encoded = None
    /\ NothingElse

\* decode_tens_text(&input) on any text, on any of the builds; one call is looked at
DecodeInput ==
    \E input \in TextInputs, bld \in Builds :
        /\ parsed = None
        /\ parsed' = [input |-> input, ret |-> decode_tens_text(input, bld)]
        /\ UNCHANGED <<registry_vars, text, value, canon, string_table, canonical, scanned, out,
                       wire, dictionary, result, encoded>>

NextLines == DecodeInput

SpecLines == InitLines /\ [][NextLines]_vars

\* a line the decoder passes over: blank, a comment or a directive
Skipped(trimmed) ==
    \/ trimmed = <<>>
    \/ starts_with(trimmed, <<35>>)
    \/ starts_with(trimmed, <<64, 118, 101, 114, 115, 105, 111, 110>>)
    \/ starts_with(trimmed, <<64, 101, 110, 99, 111, 100, 105, 110, 103>>)
    \/ starts_with(trimmed, <<64, 115, 99, 104, 101, 109, 97>>)
    \/ starts_with(trimmed, DICT)

\* the schema name in force at line i: the second word of the last "@schema"
\* line above it that has one, the empty name when there is none
NameAt(ls, i) ==
    LET named == {j \in 1..(i - 1) :
                     /\ starts_with(trim(ls[j]), <<64, 115, 99, 104, 101, 109, 97>>)
                     /\ Len(split_whitespace(trim(ls[j]))) >= 2}
    IN  IF named = {} THEN <<>>
        ELSE split_whitespace(trim(ls[CHOOSE j \in named : \A x \in named : x <= j]))[2]

\* the marker lines: those that read the schema name in force, spaces around it aside
MarkerLines(ls) ==
    {i \in 1..Len(ls) : ~Skipped(trim(ls[i])) /\ trim(ls[i]) = NameAt(ls, i)}

\* the field names of the field lines from line a to line b
FieldNames(ls, a, b) ==
    {split_once(trim(ls[i]), whitespace_at(trim(ls[i]))).v.name :
        i \in {j \in a..b : /\ ~Skipped(trim(ls[j]))
                            /\ j \notin MarkerLines(ls)
                            /\ starts_with(ls[j], <<32, 32>>)
                            /\ whitespace_at(trim(ls[j])) # {}}}

\* C22: over any lines, each line that reads the schema name closes the record
\* in progress and opens one, the end of the input closes the last, field lines
\* above the first marker are ignored; the result has one record per marker
\* line, in order: an empty array for none, the bare object for one, an array
\* otherwise.
C22_RecordFraming ==
    parsed # None =>
        LET ls == lines(parsed.input)
            markers == MarkerLines(ls)
            n == Cardinality(markers)
            nth(j) == CHOOSE i \in markers : Cardinality({x \in markers : x < i}) = j - 1
            last(j) == IF j = n THEN Len(ls) ELSE nth(j + 1) - 1
            records == IF n = 1 THEN <<parsed.ret.v>> ELSE parsed.ret.v.a
        IN  /\ parsed.ret.kind = "ok"
            /\ n = 1 => parsed.ret.v.k = "obj"
            /\ n # 1 => parsed.ret.v.k = "arr"
            /\ Len(records) = n
            /\ \A j \in 1..n : Range(keys(records[j].m)) = FieldNames(ls, nth(j), last(j))

-----------------------------------------------------------------------------
(* encode_varint of a u32, and decode_varint of the bytes it returned with  *)
(* other bytes after them (utils.rs 22-56)                                  *)

MaxFollow == 2

\* the 7-bit groups a u32 of the model is made of, and its top four bits
GroupPoints == {0, 1, 64, 127}
TopPoints == {0, 1, 8, 15}

\* u32 values: every choice of the four low groups and of the top bits, among
\* them 0, 127, 128, 16383, 16384, 2^21, 2^28, 2^31 and 2^32-1
U32Points ==
    {[i \in 0..31 |-> IF i < 28 THEN BitAt(g[i \div 7], i % 7) ELSE BitAt(top, i - 28)]
        : g \in [0..3 -> GroupPoints], top \in TopPoints}

\* the bytes that follow a varint in the input
FollowBytes == {0, 1, 128, 255}
Following == UNION {[1..k -> FollowBytes] : k \in 0..MaxFollow}

InitVarint ==
    /\ value = NullV
    /\ canon = <<>>
    /\ string_table = StringTable_new
    /\ canonical = None
    /\ scanned = None
    /\ out = <<>>
    /\ wire = <<>>
    /\ dictionary = <<>>
    /\ result = None
    /\ encoded = None
    /\ NothingElse

\* encode_varint(val)
EncodeVarint ==
    \E val \in U32Points :
        /\ encoded = None
        /\ encoded' = [val |-> val, bytes |-> encode_varint(val)]
        /\ UNCHANGED <<registry_vars, text_vars, value, canon, string_table, canonical,
                       scanned, out, wire, dictionary, result>>

\* decode_varint(&bytes[pos..]) where the varint is followed by other bytes
DecodeVarint ==
    \E t \in Following, bld \in Builds :
        /\ encoded # None
        /\ result = None
        /\ wire' = encoded.bytes \o t
        /\ result' = [bld |-> bld, ret |-> decode_varint(encoded.bytes \o t, bld)]
        /\ UNCHANGED <<registry_vars, text_vars, value, canon, string_table, canonical,
                       scanned, out, dictionary, encoded>>

NextVarint == EncodeVarint \/ DecodeVarint

SpecVarint == InitVarint /\ [][NextVarint]_vars

\* bit k of the number whose 7-bit groups, least significant first, are the
\* low seven bits of the bytes
GroupBit(bytes, k) ==
    IF k \div 7 + 1 <= Len(bytes) THEN BitAt(bytes[k \div 7 + 1] % 128, k % 7) ELSE 0

\* the unsigned LEB128 form of val: 1 to 5 bytes, the bit 0x80 on every byte but
\* the last, the groups of val least significant first and nothing else in
\* them, and no more bytes than val needs
IsLEB128(bytes, val) ==
    /\ Len(bytes) \in 1..5
    /\ \A i \in 1..(Len(bytes) - 1) : bytes[i] >= 128
    /\ bytes[Len(bytes)] < 128
    /\ \A k \in 0..31 : GroupBit(bytes, k) = val[k]
    /\ \A k \in 32..34 : GroupBit(bytes, k) = 0
    /\ Len(bytes) > 1 => bytes[Len(bytes)] # 0
    /\ (\A k \in 7..31 : val[k] = 0) => Len(bytes) = 1

\* C23: for every u32 n, encode_varint(n) is the LEB128 form of n, and
\* decode_varint of these bytes, whatever bytes follow them, returns n and the
\* length of the encoding, on every build.
C23_VarintRoundtrip ==
    /\ encoded # None => IsLEB128(encoded.bytes, encoded.val)
    /\ (encoded # None /\ result # None) =>
            result.ret = [panic |-> FALSE, val |-> encoded.val, n |-> Len(encoded.bytes)]

\* a five-byte encoding (bit 31 set) decoded with a continuation byte after it
C23_Witness ==
    /\ encoded # None
    /\ result # None
    /\ encoded.val[31] = 1
    /\ Len(encoded.bytes) = 5
    /\ Len(wire) = 6
    /\ wire[6] = 255
    /\ result.ret.n = 5

-----------------------------------------------------------------------------
(* decode of a document the encoder wrote, with other bytes after it        *)
(* (encoder.rs 309-312: the count of bytes decode_value consumed is dropped) *)

MaxTrail == 2

\* NULL, STRING_REF, ARRAY_START, a continuation byte, 0xFF
TrailBytes == {0, 7, 8, 128, 255}
Trailing == UNION {[1..k -> TrailBytes] : k \in 0..MaxTrail}

\* every scalar, the empty array and object, and the documents of ReuseValues
TrailValues == Scalars \cup {ArrV(<<>>), ObjV(<<>>)} \cup ReuseValues

InitTrail ==
    /\ value \in TrailValues
    /\ canon = <<>>
    /\ string_table = StringTable_new
    /\ canonical = None
    /\ scanned = None
    /\ out = <<>>
    /\ wire = <<>>
    /\ dictionary = <<>>
    /\ result = None
    /\ encoded = None
    /\ NothingElse

\* the host hands the decoder the encoder's bytes with other bytes after them
SendFollowed ==
    \E t \in Trailing :
        /\ out # <<>>
        /\ result = None
        /\ wire' = out \o t
        /\ UNCHANGED <<registry_vars, text_vars, value, canon, string_table, canonical,
                       scanned, out, dictionary, result, encoded>>

NextTrail == Encode \/ SendFollowed \/ Decode

SpecTrail == InitTrail /\ [][NextTrail]_vars

\* the bytes decoded are the encoder's output and n more
FollowedBy(n) ==
    /\ out # <<>>
    /\ result # None
    /\ Len(result.bytes) = Len(out) + n
    /\ SubSeq(result.bytes, 1, Len(out)) = out

\* C24: for every document b the encoder wrote and every byte sequence t,
\* decode(b ++ t) returns Ok with the value that decode(b) returns, on every
\* build: the bytes after the one value-tree node are not looked at.
C24_TrailingIgnored ==
    \A n \in 0..(MaxTrail + 1) :
        FollowedBy(n) =>
            \A bld \in Builds :
                /\ decode(out, <<>>, bld).result.kind = "ok"
                /\ result.ret = decode(out, <<>>, bld).result

\* an array decoded with ARRAY_START and a continuation byte after it
C24_Witness ==
    /\ FollowedBy(2)
    /\ result.bytes[Len(out) + 1] = 8
    /\ result.bytes[Len(out) + 2] = 128
    /\ result.ret.kind = "ok"
    /\ result.ret.value.k = "arr"
    /\ Len(result.ret.value.a) = 3

=============================================================================
